---- MODULE Spec2Model ----
(***************************************************************************)
(* Model of the xbdistro version tracker: the SQLite-backed version store  *)
(* (xbdistro_tools/db.py) and the reconciliation cycle                     *)
(* (PackageDatabaseUpdater.update_database in xbdistro_tools/cron.py).     *)
(*                                                                         *)
(* The three tables are sets of rows.  A cycle is a sequence of steps, one *)
(* per loop iteration / committed store write of update_database.          *)
(***************************************************************************)
EXTENDS Integers, Sequences, FiniteSets, Bags, TLC

\* ---------------------------------------------------------------- bounds
SourceNames == {"s1", "s2"}
PackageNames == {"p1", "p2"}
VersionStrings == {"1.0", "1.1"}
\* names the NixOS payload can have an entry for
NixosNames == {"s1"}
\* CURRENT_TIMESTAMP has a resolution of one second; the clock counts seconds.
MaxClock == 2
\* reconciliation cycles in one behaviour
MaxCycles == 2
\* store calls in one behaviour of the store alone
MaxStoreCalls == 4

\* ------------------------------------------------------------- constants
None == "<None>"
Raises == "<raises>"
EmptyString == ""
\* reading source.version raises xbstrap's RollingIdUnavailableError
RollingIdUnavailable == "<rolling id unavailable>"
local == "local"
nixos == "nixos"

\* What provider.get_version(name) can do: return None, return a string
\* (possibly empty), or raise.
ProviderAnswers == VersionStrings \cup {None, EmptyString, Raises}

\* what fetchone() returns when the query has no row
NoRow == <<>>
\* no command-line export is running
NoArgs == [export_db |-> FALSE, sources |-> <<>>, packages |-> <<>>]

Max(S) == CHOOSE x \in S : \A y \in S : y <= x

\* ----------------------------------------------------------------- state
VARIABLES
    self_db,            \* the three tables
    now,                \* the clock, in seconds, at the last insert
    pc,                 \* "idle", "running" or "done"
    upstream_sources,   \* self.upstream_sources
    snap,               \* the snapshot of the running (or last) cycle
    existing_sources,   \* baseline read at cycle start
    existing_packages,
    existing_owner,     \* the source each stored package had at cycle start
    current_sources,    \* names seen so far in this cycle
    current_packages,
    cur_source,         \* the source whose upstream origins are pending
    upstream_todo,      \* upstream origins not yet handled for cur_source
    swept_packages,     \* removed packages already handled
    swept_sources,      \* removed sources already handled
    events,             \* bag of the callbacks invoked in this cycle
    calls,              \* bag of the store writes called in this cycle
    last_write,         \* the last store write and what it returned
    repeat,             \* this cycle follows a cycle over the same snapshot
    prev_pkgs,          \* package names of the previous cycle's snapshot
    cycles,             \* cycles started so far
    faulty,             \* the storage can fail in this behaviour
    raising,            \* the callbacks whose subscriber raises
    last_read,          \* the last read of the store since the last write
    store_calls,        \* store calls made outside a cycle
    args,               \* the options of the running command-line export
    todo_sources,       \* cli.py main: sources not yet handed to do_source
    todo_packages,      \* cli.py main: packages not yet handed to do_package
    done_sources,       \* cli.py main: the list done_sources
    done_packages,      \* cli.py main: the list done_packages
    _packages_data,     \* NixOSVersionProvider._packages_data, of the class
    cache_age           \* age of the payload file in days, -1 without file

vars == <<self_db, now, pc, upstream_sources, snap, existing_sources,
          existing_packages, existing_owner, current_sources,
          current_packages, cur_source,
          upstream_todo, swept_packages, swept_sources, events, calls,
          last_write, repeat, prev_pkgs, cycles, faulty, raising,
          last_read, store_calls, args, todo_sources,
          todo_packages, done_sources, done_packages, _packages_data,
          cache_age>>

\* what the command-line export and the provider's class keep
run_vars == <<args, todo_sources, todo_packages, done_sources, done_packages,
              _packages_data, cache_age>>

\* ------------------------------------------------------------ the store
\* db.sources  : rows (id, name)
\* db.versions : rows (source_id, version, source, timestamp)
\* db.packages : rows (name, source_id, fields), fields being the six columns
\*               maintainer, homepage_url, license, category, summary and
\*               description
EmptyDb == [sources |-> {}, versions |-> {}, packages |-> {}]

\* SELECT id FROM sources WHERE name = ?   (0 stands for "no row")
SourceIdOf(db, source_name) ==
    IF \E r \in db.sources : r.name = source_name
    THEN (CHOOSE r \in db.sources : r.name = source_name).id
    ELSE 0

\* rowid assigned to a row inserted into sources: sources.id is an INTEGER
\* PRIMARY KEY, so the next id is max(id) + 1
NextSourceId(db) ==
    IF db.sources = {} THEN 1 ELSE Max({r.id : r \in db.sources}) + 1

\* a plain INSERT INTO sources
InsertSource(db, source_name) ==
    db.sources \cup {[id |-> NextSourceId(db), name |-> source_name]}

\* INSERT OR IGNORE INTO sources (name) VALUES (?)
InsertOrIgnoreSource(db, source_name) ==
    IF \E r \in db.sources : r.name = source_name
    THEN db.sources
    ELSE db.sources \cup {[id |-> NextSourceId(db), name |-> source_name]}

\* INSERT OR IGNORE INTO versions: a conflicting row is kept as it is
InsertOrIgnoreVersion(versions, source_id, version, source, ts) ==
    IF \E r \in versions : r.source_id = source_id /\ r.version = version
                            /\ r.source = source
    THEN versions
    ELSE versions \cup {[source_id |-> source_id, version |-> version,
                         source |-> source, timestamp |-> ts]}

\* a table that is UNIQUE (source_id, version): the new row replaces the row
\* of the same version whatever its origin
ReplaceVersionOfAnyOrigin(versions, source_id, version, source, ts) ==
    {r \in versions : ~(r.source_id = source_id /\ r.version = version)}
      \cup {[source_id |-> source_id, version |-> version,
             source |-> source, timestamp |-> ts]}

\* a table that is UNIQUE (source_id, source): the new row replaces every
\* row of the source and origin
ReplaceOriginVersion(versions, source_id, version, source, ts) ==
    {r \in versions : ~(r.source_id = source_id /\ r.source = source)}
      \cup {[source_id |-> source_id, version |-> version,
             source |-> source, timestamp |-> ts]}

\* INSERT OR REPLACE INTO versions (source_id, version, source): the row that
\* conflicts on UNIQUE (source_id, version, source) is deleted, and a new row
\* is inserted whose timestamp defaults to CURRENT_TIMESTAMP.
InsertOrReplaceVersion(versions, source_id, version, source, ts) ==
    {r \in versions : ~(r.source_id = source_id /\ r.version = version
                        /\ r.source = source)}
      \cup {[source_id |-> source_id, version |-> version,
             source |-> source, timestamp |-> ts]}

add_source_version(db, source_name, version, source, ts) ==
    LET srcs == InsertOrIgnoreSource(db, source_name)
        sid  == SourceIdOf([db EXCEPT !.sources = srcs], source_name)
    IN  [db EXCEPT !.sources = srcs,
                   !.versions = InsertOrReplaceVersion(db.versions, sid,
                                                       version, source, ts)]

\* rows of versions JOIN sources for one source name and origin
VersionRows(db, source_name, repository_source) ==
    {r \in db.versions : r.source_id = SourceIdOf(db, source_name)
                         /\ r.source = repository_source}

\* ORDER BY v.timestamp DESC LIMIT 1: any row with the greatest timestamp;
\* SQL leaves the order of rows with equal timestamps unspecified.
get_latest_version_from_source(db, source_name, repository_source) ==
    LET rows == VersionRows(db, source_name, repository_source)
    IN  IF rows = {} THEN {NoRow}
        ELSE {<<r.version, r.timestamp>> :
                r \in {x \in rows : \A y \in rows : y.timestamp <= x.timestamp}}

get_all_source_names(db) == {r.name : r \in db.sources}

get_all_package_names(db) == {r.name : r \in db.packages}

\* packages JOIN sources WHERE p.name = ?
get_package_by_name(db, package_name) ==
    LET rows == {<<p, s>> \in db.packages \X db.sources :
                    p.name = package_name /\ p.source_id = s.id}
    IN  IF rows = {} THEN NoRow
        ELSE LET r == CHOOSE r \in rows : TRUE
             IN  <<r[1].name, r[2].name, r[1].fields>>

add_package_metadata_ok(db, source_name) == SourceIdOf(db, source_name) # 0

\* the keyword arguments of add_package_metadata left at their defaults
NoMetadata ==
    [maintainer |-> None, homepage_url |-> None, license |-> None,
     category |-> None, summary |-> None, description |-> None]

\* the six columns of the package's row, all None without a row
stored_fields(db, package_name) ==
    IF \E p \in db.packages : p.name = package_name
    THEN (CHOOSE p \in db.packages : p.name = package_name).fields
    ELSE NoMetadata

\* an UPDATE that keeps the stored column where the argument is None
UpdateGiven(row, source_id, fields) ==
    [row EXCEPT !.source_id = source_id,
                !.fields = [k \in DOMAIN fields |->
                              IF fields[k] = None THEN row.fields[k]
                              ELSE fields[k]]]

\* UPDATE packages SET source_id = ?, maintainer = ?, ... WHERE name = ?
UpdatePackage(row, source_id, fields) ==
    [row EXCEPT !.source_id = source_id, !.fields = fields]

\* an unknown source is given the id its row would get
source_id_or_new(db, source_name) ==
    IF SourceIdOf(db, source_name) = 0 THEN NextSourceId(db)
    ELSE SourceIdOf(db, source_name)

\* SELECT id FROM sources WHERE name = ?; "if not result: return False"
source_id_or_fail(db, source_name) == SourceIdOf(db, source_name)

\* name is None for a call that leaves the package name out
add_package_metadata(db, source_name, name, fields) ==
    LET source_id == source_id_or_fail(db, source_name)
        package_name == IF name = None THEN source_name ELSE name
    IN  IF source_id = 0 THEN db
        ELSE IF \E p \in db.packages : p.name = package_name
        THEN [db EXCEPT !.packages =
                {IF p.name = package_name
                 THEN UpdatePackage(p, source_id, fields) ELSE p :
                    p \in db.packages}]
        ELSE [db EXCEPT !.packages =
                db.packages \cup {[name |-> package_name,
                                   source_id |-> source_id,
                                   fields |-> fields]}]

get_source_packages(db, source_id) ==
    {p.name : p \in {x \in db.packages : x.source_id = source_id}}

\* the packages the source had when the cycle started
get_packages_by_source_name_stale(db, source_name) ==
    {p \in DOMAIN existing_owner : existing_owner[p] = source_name}

get_packages_by_source_name(db, source_name) ==
    IF SourceIdOf(db, source_name) = 0 THEN {}
    ELSE get_source_packages(db, SourceIdOf(db, source_name))

\* a DELETE that is never committed
delete_package_lost(db, package_name) == db

delete_package(db, package_name) ==
    [db EXCEPT !.packages = {p \in db.packages : p.name # package_name}]

delete_source_ok(db, source_name) == SourceIdOf(db, source_name) # 0

\* a delete that takes the packages of the source along
delete_source_cascading(db, source_name) ==
    LET sid == SourceIdOf(db, source_name)
    IN  IF sid = 0 THEN db
        ELSE [db EXCEPT !.versions = {v \in db.versions : v.source_id # sid},
                        !.sources = {s \in db.sources : s.id # sid},
                        !.packages = {p \in db.packages : p.source_id # sid}]

delete_source(db, source_name) ==
    LET sid == SourceIdOf(db, source_name)
    IN  IF sid = 0 THEN db
        ELSE [db EXCEPT !.versions = {v \in db.versions : v.source_id # sid},
                        !.sources = {s \in db.sources : s.id # sid}]


\* cron.py _get_latest_version: result[0] if result else None
get_latest_version_of(db, source_name, repository_source) ==
    {IF r = NoRow THEN None ELSE r[1] :
        r \in get_latest_version_from_source(db, source_name, repository_source)}

\* ------------------------------------------------- strings and versions
\* version strings the store is called with directly: "1.0.0" equals "1.0"
\* under the version comparator without being the same string
StoreVersions == VersionStrings \cup {"1.0.0"}

\* search terms: a letter of both names in either case, a digit of one name,
\* a letter of no name, and a wildcard of LIKE
SearchTerms == {"s", "S", "1", "z", "_"}

\* A str as the sequence of its characters.
CharsOf(str) ==
    CASE str = "s1" -> <<"s", "1">>
      [] str = "s2" -> <<"s", "2">>
      [] str = "p1" -> <<"p", "1">>
      [] str = "p2" -> <<"p", "2">>
      [] str = "s" -> <<"s">>
      [] str = "S" -> <<"S">>
      [] str = "1" -> <<"1">>
      [] str = "z" -> <<"z">>
      [] str = "_" -> <<"_">>
      [] str = "1.0" -> <<"1", ".", "0">>
      [] str = "1.1" -> <<"1", ".", "1">>
      [] str = "1.0.0" -> <<"1", ".", "0", ".", "0">>
      [] str = "1.0.1" -> <<"1", ".", "0", ".", "1">>
      [] str = "2.0.0" -> <<"2", ".", "0", ".", "0">>
      [] str = "2.0.0~rc1" -> <<"2", ".", "0", ".", "0", "~", "r", "c", "1">>
      [] str = "local" -> <<"l", "o", "c", "a", "l">>
      [] str = "nixos" -> <<"n", "i", "x", "o", "s">>
      [] str = "Jo <jo@x>" -> <<"J", "o", " ", "<", "j", "o", "@", "x", ">">>
      [] str = "jo@x" -> <<"j", "o", "@", "x">>
      [] str = "jo@x <>" -> <<"j", "o", "@", "x", " ", "<", ">">>
      [] str = "" -> <<>>

\* the str of a sequence of characters
StringOf(chars) ==
    CHOOSE str \in {"s1", "s2", "p1", "p2", "s", "S", "1", "z", "_", "1.0",
                    "1.1", "1.0.0", "local", "nixos", "Jo <jo@x>", "jo@x",
                    "jo@x <>", ""} :
        CharsOf(str) = chars

\* the code point of a character
CharCode(c) ==
    CASE c = "%" -> 37 [] c = "." -> 46
      [] c = "0" -> 48 [] c = "1" -> 49 [] c = "2" -> 50
      [] c = "S" -> 83 [] c = "_" -> 95
      [] c = "a" -> 97 [] c = "c" -> 99 [] c = "i" -> 105 [] c = "l" -> 108
      [] c = "n" -> 110 [] c = "o" -> 111 [] c = "p" -> 112 [] c = "s" -> 115
      [] c = "r" -> 114 [] c = "x" -> 120 [] c = "z" -> 122 [] c = "~" -> 126

\* ORDER BY on a TEXT column: the binary collation, code point by code point
RECURSIVE CharsBefore(_, _)
CharsBefore(a, b) ==
    IF b = <<>> THEN FALSE
    ELSE IF a = <<>> THEN TRUE
    ELSE IF CharCode(Head(a)) # CharCode(Head(b))
    THEN CharCode(Head(a)) < CharCode(Head(b))
    ELSE CharsBefore(Tail(a), Tail(b))

\* the strings of a set in ORDER BY order
RECURSIVE OrderBy(_)
OrderBy(S) ==
    IF S = {} THEN <<>>
    ELSE LET first == CHOOSE x \in S :
                          \A y \in S \ {x} : CharsBefore(CharsOf(x), CharsOf(y))
         IN  <<first>> \o OrderBy(S \ {first})

\* LIKE compares ASCII letters without regard to case
LikeFold(c) == IF c = "S" THEN "s" ELSE c

\* name LIKE pattern: % matches any run of characters, _ any one character
RECURSIVE Like(_, _)
Like(pattern, text) ==
    IF pattern = <<>> THEN text = <<>>
    ELSE IF Head(pattern) = "%"
    THEN Like(Tail(pattern), text)
         \/ (text # <<>> /\ Like(pattern, Tail(text)))
    ELSE IF text = <<>> THEN FALSE
    ELSE IF Head(pattern) = "_" THEN Like(Tail(pattern), Tail(text))
    ELSE LikeFold(Head(pattern)) = LikeFold(Head(text))
         /\ Like(Tail(pattern), Tail(text))

\* the longest prefix of chars made of characters of S
RECURSIVE TakeWhile(_, _)
TakeWhile(chars, S) ==
    IF chars = <<>> \/ Head(chars) \notin S THEN <<>>
    ELSE <<Head(chars)>> \o TakeWhile(Tail(chars), S)

\* what follows that prefix
RECURSIVE DropWhile(_, _)
DropWhile(chars, S) ==
    IF chars = <<>> \/ Head(chars) \notin S THEN chars
    ELSE DropWhile(Tail(chars), S)

\* the number a run of digits denotes
RECURSIVE NumberOf(_, _)
NumberOf(digits, number) ==
    IF digits = <<>> THEN number
    ELSE NumberOf(Tail(digits), 10 * number + (CharCode(Head(digits)) - 48))

\* The components of a version string in libversion: runs of digits and runs
\* of letters, every other character a separator; "1.0" as two numbers,
\* "2.0.0~rc1" as three numbers, the pre-release word rc and a number.  A
\* word is kept by its first letter.  rank is the class of the component: a
\* pre-release word (1) ranks below a zero (2), a zero below a number (4).
RECURSIVE VersionComponents(_)
VersionComponents(chars) ==
    LET Digits == {"0", "1", "2", "3", "4", "5", "6", "7", "8", "9"}
        Letters == {"a", "b", "c", "e", "l", "p", "r", "t"}
    IN  IF chars = <<>> THEN <<>>
        ELSE IF Head(chars) \in Digits
        THEN LET number == NumberOf(TakeWhile(chars, Digits), 0)
             IN  <<[rank |-> IF number = 0 THEN 2 ELSE 4,
                    letter |-> 0, number |-> number]>>
                 \o VersionComponents(DropWhile(chars, Digits))
        ELSE IF Head(chars) \in Letters
        THEN <<[rank |-> 1, letter |-> CharCode(Head(chars)), number |-> 0]>>
             \o VersionComponents(DropWhile(chars, Letters))
        ELSE VersionComponents(Tail(chars))

\* libversion.version_compare2: component by component, by class, then by
\* letter, then by number, the shorter version padded with zeros; -1, 0 or 1
RECURSIVE CompareComponents(_, _)
CompareComponents(a, b) ==
    IF a = <<>> /\ b = <<>> THEN 0
    ELSE LET Padding == [rank |-> 2, letter |-> 0, number |-> 0]
             x == IF a = <<>> THEN Padding ELSE Head(a)
             y == IF b = <<>> THEN Padding ELSE Head(b)
             key(c) == <<c.rank, c.letter, c.number>>
             differs == {i \in 1..3 : key(x)[i] # key(y)[i]}
             first == CHOOSE i \in differs : \A k \in differs : i <= k
         IN  IF differs # {}
             THEN (IF key(x)[first] < key(y)[first] THEN -1 ELSE 1)
             ELSE CompareComponents(IF a = <<>> THEN a ELSE Tail(a),
                                    IF b = <<>> THEN b ELSE Tail(b))

\* the comparison of the two strings character by character
version_compare2_of_strings(v1, v2) ==
    IF v1 = v2 THEN 0
    ELSE IF CharsBefore(CharsOf(v1), CharsOf(v2)) THEN -1 ELSE 1

version_compare2(v1, v2) ==
    CompareComponents(VersionComponents(CharsOf(v1)),
                      VersionComponents(CharsOf(v2)))

\* version1 and version2 are tuples (version, source, "")
compare_two_versions(version1, version2) ==
    version_compare2(version1[1], version2[1])

\* ------------------------------------------------------ the store's reads
\* One row per origin that has a fact for the source, the row of the greatest
\* timestamp (any of them, where several rows share it), ORDER BY source.
get_latest_versions_each_source(db, source_name) ==
    LET present == {o \in {local, nixos} : VersionRows(db, source_name, o) # {}}
        latest(o) == {r.version :
                        r \in {x \in VersionRows(db, source_name, o) :
                                 \A y \in VersionRows(db, source_name, o) :
                                     y.timestamp <= x.timestamp}}
        ordered == OrderBy(present)
    IN  {[i \in 1..Len(ordered) |-> <<ordered[i], rn[ordered[i]]>>] :
            rn \in {f \in [present -> {r.version : r \in db.versions}] :
                      \A o \in present : f[o] \in latest(o)}}

RECURSIVE sorted_ascending(_)
RECURSIVE sorted_reverse(_)

\* the sort without reverse=True: ascending, the oldest version first
sorted_ascending(version_tuples) ==
    IF version_tuples = <<>> THEN <<>>
    ELSE LET rest == sorted_ascending(Tail(version_tuples))
             x == Head(version_tuples)
             behind == SelectSeq(rest,
                           LAMBDA y : compare_two_versions(y, x) < 0)
             ahead == SelectSeq(rest,
                           LAMBDA y : compare_two_versions(y, x) >= 0)
         IN  behind \o <<x>> \o ahead

\* sorted(version_tuples, key=cmp_to_key(compare_two_versions), reverse=True):
\* descending, and stable: tuples that compare equal keep the order they had
sorted_reverse(version_tuples) ==
    IF version_tuples = <<>> THEN <<>>
    ELSE LET rest == sorted_reverse(Tail(version_tuples))
             x == Head(version_tuples)
             ahead == SelectSeq(rest,
                          LAMBDA y : compare_two_versions(y, x) > 0)
             behind == SelectSeq(rest,
                          LAMBDA y : compare_two_versions(y, x) <= 0)
         IN  ahead \o <<x>> \o behind

\* what get_latest_version can return: NoRow for None, else (origin, version)
get_latest_version(db, source_name) ==
    {IF latest_versions = <<>> THEN NoRow
     ELSE LET version_tuples ==
                  [i \in 1..Len(latest_versions) |->
                     <<latest_versions[i][2], latest_versions[i][1], "">>]
              sorted_versions == sorted_reverse(version_tuples)
          IN  <<sorted_versions[1][2], sorted_versions[1][1]>> :
       latest_versions \in get_latest_versions_each_source(db, source_name)}

\* what a read returned, or that it raised
Returned(value) == [raised |-> FALSE, value |-> value]
Raised == [raised |-> TRUE, value |-> <<>>]

\* a read of the store and its outcome
Read(op, a, b, out) == [op |-> op, a |-> a, b |-> b, out |-> out]
NoRead == Read(None, None, None, Returned(<<>>))

\* What search_sources can do.  The subscripts [0] and [1] are applied to
\* what the lookups return; on None they raise TypeError, which
\* "except sqlite3.Error" does not catch.
search_sources(db, search_term) ==
    LET search_pattern == <<"%">> \o CharsOf(search_term) \o <<"%">>
        results == OrderBy({r.name : r \in {s \in db.sources :
                                Like(search_pattern, CharsOf(s.name))}})
        names == {results[i] : i \in 1..Len(results)}
        entries(source_name) ==
            {IF l = NoRow \/ g = NoRow
             THEN [raised |-> TRUE, name |-> source_name,
                   local_version |-> None, latest_version |-> None]
             ELSE [raised |-> FALSE, name |-> source_name,
                   local_version |-> l[1], latest_version |-> g[2]] :
               l \in get_latest_version_from_source(db, source_name, local),
               g \in get_latest_version(db, source_name)}
    IN  {IF \E n \in names : e[n].raised THEN Raised
         ELSE Returned([i \in 1..Len(results) |->
                          [name |-> e[results[i]].name,
                           local_version |-> e[results[i]].local_version,
                           latest_version |-> e[results[i]].latest_version]]) :
           e \in {f \in [names -> UNION {entries(n) : n \in names}] :
                    \A n \in names : f[n] \in entries(n)}}

\* --------------------------------------------------------- notifications
\* chars.split(sep)[-1]: what follows the last sep, all of it without one
RECURSIVE split_last(_, _)
split_last(chars, sep) ==
    IF \A i \in DOMAIN chars : chars[i] # sep THEN chars
    ELSE split_last(Tail(chars), sep)

\* chars.split(sep)[0]: what precedes the first sep, all of it without one
RECURSIVE split_first(_, _)
split_first(chars, sep) ==
    IF chars = <<>> \/ Head(chars) = sep THEN <<>>
    ELSE <<Head(chars)>> \o split_first(Tail(chars), sep)

\* email_notifier.py lines 220-224: the address in the maintainer field
maintainer_email_of(maintainer) ==
    IF maintainer \in {None, EmptyString} THEN None
    ELSE LET chars == CharsOf(maintainer)
         IN  IF \A i \in DOMAIN chars : chars[i] # "@" THEN None
             ELSE IF \E i \in DOMAIN chars : chars[i] = "<"
             THEN StringOf(split_first(split_last(chars, "<"), ">"))
             ELSE maintainer

\* email_notifier.py line 20: the address of the administrator
fallback_email == "admin@xbdistro-version-checker.org"

\* email_notifier.py line 65: "maintainer_email if maintainer_email else
\* self.fallback_email" -- None and '' are falsy
recipient_of(maintainer_email) ==
    IF maintainer_email \in {None, EmptyString} THEN fallback_email
    ELSE maintainer_email

\* email_notifier.py lines 66-83: "maintainer_email is None" selects the
\* [UNMAINTAINED] subject, the greeting "Hello Administrator," and the note
is_unmaintained_of(maintainer_email) == maintainer_email = None

\* A call of email_notifier.send_update_notification, with the recipient
\* and the marking of the message it builds (lines 64-85).
Send(package_name, source_name, local_version, upstream_version, repository, maintainer_email) ==
    [package_name |-> package_name, source_name |-> source_name,
     local_version |-> local_version, upstream_version |-> upstream_version,
     repository |-> repository, maintainer_email |-> maintainer_email,
     recipient |-> recipient_of(maintainer_email),
     is_unmaintained |-> is_unmaintained_of(maintainer_email)]

\* _send_email without its try block: the error of the SMTP connection
\* leaves the call
send_email_uncaught(transport_fails) ==
    [ok |-> ~transport_fails, raised |-> transport_fails]

\* email_notifier.py lines 147-173: True when the message went out, and
\* "except Exception: return False" for whatever the SMTP connection raised
send_email(transport_fails) == [ok |-> ~transport_fails, raised |-> FALSE]

\* email_notifier.py lines 64-85: subject and body are built from the
\* arguments, and what _send_email returns is returned
send_update_notification(transport_fails) == send_email(transport_fails)

\* The loop of lines 215-234 over the rows of packages: the calls of
\* send_update_notification made, what each returned, and whether one of
\* them raised, which ends the loop.  unreachable holds the package names for
\* which the SMTP connection fails.
RECURSIVE send_each(_, _, _, _, _, _)
send_each(packages, source_name, local_version, version, repository, unreachable) ==
    IF packages = {}
    THEN [sends |-> EmptyBag, returned |-> EmptyBag, raised |-> FALSE]
    ELSE LET package == CHOOSE p \in packages : TRUE
             sent == SetToBag({Send(package.name, source_name, local_version,
                                    version, repository,
                                    maintainer_email_of(package.maintainer))})
             result == send_update_notification(package.name \in unreachable)
             rest == send_each(packages \ {package}, source_name,
                               local_version, version, repository, unreachable)
         IN  IF result.raised
             THEN [sends |-> sent, returned |-> EmptyBag, raised |-> TRUE]
             ELSE [sends |-> sent (+) rest.sends,
                   returned |-> SetToBag({[package_name |-> package.name,
                                           ok |-> result.ok]})
                                (+) rest.returned,
                   raised |-> rest.raised]

\* the rows as they are: nothing is sent for a source without packages
packages_or_none(stored, source_name) == stored

\* email_notifier.py lines 206-213: without packages, the source name stands
\* for the package
packages_or_source(stored, source_name) ==
    IF stored = {} THEN {[name |-> source_name, maintainer |-> None]}
    ELSE stored

\* "if not local_version_result" left out: a source without a local version
\* is reported with None in its place
has_no_local_version_never(local_version_result) == FALSE

\* email_notifier.py lines 198-201
has_no_local_version(local_version_result) == local_version_result = NoRow

\* What notify_package_update can do: whether it queried the store, the bag
\* of the send_update_notification calls it made, what they returned and
\* whether it raised.  email_notifier is FALSE for a notifier that is None.
notify_package_update(db, source_name, version, repository, email_notifier, unreachable) ==
    IF ~email_notifier
    THEN {[queried |-> FALSE, sends |-> EmptyBag, returned |-> EmptyBag,
           raised |-> FALSE]}
    ELSE {IF has_no_local_version(local_version_result)
          THEN [queried |-> TRUE, sends |-> EmptyBag, returned |-> EmptyBag,
                raised |-> FALSE]
          ELSE LET local_version == IF local_version_result = NoRow THEN None
                                    ELSE local_version_result[1]
                   stored == {[name |-> p.name,
                               maintainer |-> p.fields.maintainer] :
                                p \in {x \in db.packages :
                                   x.name \in get_packages_by_source_name(
                                                  db, source_name)}}
                   packages == packages_or_source(stored, source_name)
                   sent == send_each(packages, source_name, local_version,
                                     version, repository, unreachable)
               IN  [queried |-> TRUE, sends |-> sent.sends,
                    returned |-> sent.returned, raised |-> sent.raised] :
            local_version_result \in
                get_latest_version_from_source(db, source_name, local)}

\* the comparison left out: every observation counts as a change
version_changed_always(current_version, version) == TRUE

\* cron.py lines 98 and 116: current_version != version
version_changed(current_version, version) == current_version # version

\* "if upstream_version is not None:"
upstream_present_not_none(upstream_version) ==
    upstream_version \notin {Raises, None}

\* cron.py line 113: "if upstream_version:" -- None and '' are falsy, and a
\* provider that raised has no value at all
upstream_present(upstream_version) ==
    upstream_version \notin {Raises, None, EmptyString}

\* the is_new_source test left out
reports_update_always(is_new_source) == TRUE

\* cron.py lines 103 and 121: "if not is_new_source and self.on_..."
reports_update(is_new_source) == ~is_new_source

\* the lookup of the stored package left out
reports_added_always(existing_package) == TRUE

\* a package never taken for new
reports_added_never(existing_package) == FALSE

\* cron.py line 140: "if not existing_package and self.on_package_added"
reports_added(existing_package) == existing_package = NoRow

\* the exception of source.version left uncaught
local_version_uncaught(reading) ==
    IF reading = RollingIdUnavailable THEN Raises ELSE reading

\* every exception of source.version taken for the rolling-id error
local_version_one_sentinel(reading) ==
    IF reading \in {RollingIdUnavailable, Raises} THEN "RollingIDUnavailable"
    ELSE reading

\* cron.py lines 87-94: the declared version, or the string that stands for
\* the exception that reading it raised
local_version_of(reading) ==
    IF reading = RollingIdUnavailable THEN "RollingIDUnavailable"
    ELSE IF reading = Raises THEN "Error: Exception"
    ELSE reading

\* timestamp of the stored fact (source_name, source, version), -1 if none
TimestampOf(db, source_name, version, source) ==
    LET rows == {r \in VersionRows(db, source_name, source) :
                    r.version = version}
    IN  IF rows = {} THEN -1 ELSE (CHOOSE r \in rows : TRUE).timestamp

\* ------------------------------------------------------ package metadata
\* str.join
RECURSIVE join(_, _)
join(sep, items) ==
    IF items = <<>> THEN ""
    ELSE IF Len(items) = 1 THEN items[1]
    ELSE items[1] \o sep \o join(sep, Tail(items))

\* The yml of a package as _extract_package_metadata reads it: whether it
\* has the key 'metadata', which keys that section has, and their values.
no_metadata_yml ==
    [has_metadata |-> FALSE, keys |-> {}, maintainer |-> "", website |-> "",
     spdx |-> "", categories |-> <<>>, summary |-> "", description |-> ""]

full_metadata_yml ==
    [has_metadata |-> TRUE,
     keys |-> {"maintainer", "website", "spdx", "categories", "summary",
               "description"},
     maintainer |-> "Jo <jo@x>", website |-> "url", spdx |-> "MIT",
     categories |-> <<"base", "libs">>, summary |-> "text",
     description |-> "long"]

\* a 'metadata' section with a maintainer and one category only
partial_metadata_yml ==
    [has_metadata |-> TRUE, keys |-> {"maintainer", "categories"},
     maintainer |-> "jo@x", website |-> "", spdx |-> "",
     categories |-> <<"base">>, summary |-> "", description |-> ""]

\* A TargetPackage: has_subpkg_yml is "hasattr(package, '_subpkg_yml') and
\* package._subpkg_yml".
Package(has_subpkg_yml, subpkg_yml, this_yml) ==
    [has_subpkg_yml |-> has_subpkg_yml, subpkg_yml |-> subpkg_yml,
     this_yml |-> this_yml]

\* a package whose yml has no 'metadata' section
plain_package == Package(FALSE, no_metadata_yml, no_metadata_yml)

\* a package with all metadata, one with some of it, and a sub-package with
\* some metadata of its own in a package that has all
Packages ==
    {plain_package,
     Package(FALSE, no_metadata_yml, full_metadata_yml),
     Package(FALSE, no_metadata_yml, partial_metadata_yml),
     Package(TRUE, partial_metadata_yml, full_metadata_yml)}

\* cron.py lines 203 and 210-225, with the metadata.get(...) of lines
\* 147-152: the six keyword arguments of add_package_metadata, None for a
\* key the yml lacks
metadata_of(metadata_yml) ==
    LET has(key) == metadata_yml.has_metadata /\ key \in metadata_yml.keys
    IN  [maintainer |-> IF has("maintainer") THEN metadata_yml.maintainer
                        ELSE None,
         homepage_url |-> IF has("website") THEN metadata_yml.website
                          ELSE None,
         license |-> IF has("spdx") THEN metadata_yml.spdx ELSE None,
         category |-> IF has("categories")
                      THEN join(", ", metadata_yml.categories) ELSE None,
         summary |-> IF has("summary") THEN metadata_yml.summary ELSE None,
         description |-> IF has("description") THEN metadata_yml.description
                         ELSE None]

\* the metadata of the enclosing package taken for a sub-package as well
_extract_this_yml_metadata(package) == metadata_of(package.this_yml)

\* cron.py lines 205-208: the yml of the sub-package when the package has
\* one, the package's own yml otherwise
_extract_package_metadata(package) ==
    LET package_yml == IF package.has_subpkg_yml THEN package.subpkg_yml
                       ELSE package.this_yml
    IN  metadata_of(package_yml)

\* ------------------------------------------------------------- snapshots
\* What the distribution and the upstream provider answer during one cycle:
\* sources  : declared version of every source of distro.all_sources()
\* upstream : what provider.get_version(name) does for each of them
\* pkgs     : package.source of every package of distro.all_pkgs()
\* yml      : the yml of every package
EmptySnapshot ==
    [sources |-> <<>>, upstream |-> <<>>, pkgs |-> <<>>, yml |-> <<>>]

\* nixos.py get_version: None for a name the payload lacks
AnswersFor(ups, s) ==
    IF ups # <<>> /\ s \in NixosNames THEN ProviderAnswers ELSE {None}

\* upstream_sources of the updater (--upstream has the single choice 'nixos')
UpstreamConfigs == {<<>>, <<nixos>>}

\* the version a source declares when the cycle is not about its version
BaseVersion == "1.0"

\* Cycles whose snapshot varies which sources and packages exist and which
\* source a package belongs to.  package.source names a source of the
\* distribution (cli.py line 47 resolves it with distro.get_source).
StructureInputs ==
    UNION {
      {[ups |-> <<>>,
        snap |-> [sources |-> [s \in S |-> BaseVersion],
                  upstream |-> [s \in S |-> None],
                  pkgs |-> ps,
                  yml |-> [p \in P |-> plain_package]]] : ps \in [P -> S]} :
      <<S, P>> \in (SUBSET SourceNames) \X (SUBSET PackageNames)}

\* Cycles whose snapshot varies the declared version and the provider's
\* answer of the sources the NixOS payload can list.
VersionInputs ==
    UNION {
      {[ups |-> ups,
        snap |-> [sources |-> sv, upstream |-> ua, pkgs |-> <<>>,
                  yml |-> <<>>]] :
          sv \in {f \in [S -> VersionStrings] :
                    \A s \in S \ NixosNames : f[s] = BaseVersion},
          ua \in {f \in [S -> ProviderAnswers] :
                    \A s \in S : f[s] \in AnswersFor(ups, s)}} :
      <<ups, S>> \in UpstreamConfigs
                       \X {S \in SUBSET SourceNames : NixosNames \subseteq S}}

CycleInputs == StructureInputs \cup VersionInputs

\* what stays the same during a cycle
cycle_vars == <<upstream_sources, snap, existing_sources, existing_packages,
                existing_owner, repeat, prev_pkgs, cycles, faulty, raising,
                last_read, store_calls, run_vars>>

\* what a call of the store outside a cycle leaves alone
call_frame ==
    <<upstream_sources, snap, existing_sources, existing_packages,
      existing_owner, repeat, prev_pkgs, cycles, faulty, raising, run_vars>>

\* the working state of update_database
loop_vars == <<current_sources, current_packages, cur_source, upstream_todo,
               swept_packages, swept_sources>>

Event(cb, a, b, c) == [cb |-> cb, a |-> a, b |-> b, c |-> c]
Call(op, a, b, c) == [op |-> op, a |-> a, b |-> b, c |-> c]
Log(bag, e) == bag (+) SetToBag({e})

\* the record of a store write that just returned ok; prior is the timestamp
\* the written fact had before the call (-1: it was not stored, or the write
\* is not add_source_version); fields is the metadata a call passed and old
\* the metadata its package had before the call
Written(call, ok, prior) ==
    [call |-> call, ok |-> ok, prior |-> prior, error |-> FALSE,
     raised |-> FALSE, fields |-> NoMetadata, old |-> NoMetadata]

\* a write whose except clause were missing: sqlite3.Error leaves the call
storage_error_raises == [ok |-> FALSE, raised |-> TRUE]

\* "except sqlite3.Error: return False" of the four write operations
storage_error_result == [ok |-> FALSE, raised |-> FALSE]

\* the record of a store write on which sqlite3.Error was raised
Faulted(call, prior) ==
    [call |-> call, ok |-> storage_error_result.ok, prior |-> prior,
     error |-> TRUE, raised |-> storage_error_result.raised,
     fields |-> NoMetadata, old |-> NoMetadata]

\* an exception that leaves a store call leaves update_database as well,
\* where no try block encloses the call
AfterWrite(w) == IF w.raised THEN "aborted" ELSE "running"

\* the subscriber behind a callback raises when it is called
callback_raises(cb) == cb \in raising

\* A callback that update_database calls outside any try block (lines 104,
\* 141, 163 and 179): what the subscriber raises leaves update_database.
AfterCallback(cb, invoked) ==
    IF invoked /\ callback_raises(cb) THEN "aborted" ELSE "running"

\* the try block of lines 108-123 without its except clause
AfterUpstreamUncaught(raised) == IF raised THEN "aborted" ELSE "running"

\* cron.py lines 124-125, "except Exception as e: logger.warning(...)": what
\* the provider, the store or the callback raised is logged and the loop goes
\* on with the next origin
AfterUpstream(raised) == "running"

\* CURRENT_TIMESTAMP at an insert: the clock still shows the second of the
\* previous insert, or has moved on.
ClockReads == {now} \cup (IF now < MaxClock THEN {now + 1} ELSE {})

\* What a call of add_source_version can do to the connection's view of the
\* store, and what it returns.  On sqlite3.Error nothing is rolled back: the
\* error hit the first statement (nothing done), a later statement (the
\* source row is inserted) or the commit (both rows are inserted).
add_source_version_results(db, source_name, version, source) ==
    {[db |-> add_source_version(db, source_name, version, source, ts),
      ts |-> ts, ok |-> TRUE, error |-> FALSE, raised |-> FALSE] : ts \in ClockReads}
    \cup
    (IF faulty
     THEN {[db |-> db, ts |-> now, ok |-> storage_error_result.ok, error |-> TRUE,
            raised |-> storage_error_result.raised],
           [db |-> [db EXCEPT !.sources = InsertOrIgnoreSource(db, source_name)],
            ts |-> now, ok |-> storage_error_result.ok, error |-> TRUE,
            raised |-> storage_error_result.raised]}
          \cup
          {[db |-> add_source_version(db, source_name, version, source, ts),
            ts |-> ts, ok |-> storage_error_result.ok, error |-> TRUE,
            raised |-> storage_error_result.raised] :
              ts \in ClockReads}
     ELSE {})

\* add_package_metadata: the error hit a statement (nothing done) or the
\* commit (the row is written).
add_package_metadata_results(db, source_name, name, fields) ==
    {[db |-> add_package_metadata(db, source_name, name, fields),
      ok |-> add_package_metadata_ok(db, source_name), error |-> FALSE,
      raised |-> FALSE]}
    \cup
    (IF faulty
     THEN {[db |-> d, ok |-> storage_error_result.ok, error |-> TRUE,
            raised |-> storage_error_result.raised] :
             d \in {db, add_package_metadata(db, source_name, name,
                                             fields)}}
     ELSE {})

\* delete_package: the error hit the DELETE (nothing done) or the commit.
delete_package_results(db, package_name) ==
    {[db |-> delete_package(db, package_name), ok |-> TRUE, error |-> FALSE, raised |-> FALSE]}
    \cup
    (IF faulty
     THEN {[db |-> d, ok |-> storage_error_result.ok, error |-> TRUE,
            raised |-> storage_error_result.raised] :
             d \in {db, delete_package(db, package_name)}}
     ELSE {})

\* delete_source: the error hit the SELECT or the first DELETE (nothing
\* done), the second DELETE (the version facts are gone) or the commit.
delete_source_results(db, source_name) ==
    {[db |-> delete_source(db, source_name),
      ok |-> delete_source_ok(db, source_name), error |-> FALSE,
      raised |-> FALSE]}
    \cup
    (IF faulty
     THEN {[db |-> d, ok |-> storage_error_result.ok, error |-> TRUE,
            raised |-> storage_error_result.raised] :
             d \in {db,
                    [db EXCEPT !.versions =
                        {v \in db.versions :
                            v.source_id # SourceIdOf(db, source_name)}],
                    delete_source(db, source_name)}}
     ELSE {})

\* the record of a call that gave the result w
WrittenAs(call, w, prior) ==
    IF w.error THEN Faulted(call, prior) ELSE Written(call, w.ok, prior)

\* The database file the updater opens (cron.py line 59): a new one, or one
\* that an export of the command line tool left (cli.py line 27).
InitialStores ==
    {EmptyDb, add_source_version(EmptyDb, "s1", BaseVersion, local, 0)}

Init ==
    /\ self_db \in InitialStores
    /\ now = 0
    /\ pc = "idle"
    /\ upstream_sources = <<>>
    /\ snap = EmptySnapshot
    /\ existing_sources = {}
    /\ existing_packages = {}
    /\ existing_owner = <<>>
    /\ current_sources = {}
    /\ current_packages = {}
    /\ cur_source = None
    /\ upstream_todo = <<>>
    /\ swept_packages = {}
    /\ swept_sources = {}
    /\ events = EmptyBag
    /\ calls = EmptyBag
    /\ last_write = Written(Call(None, None, None, None), TRUE, -1)
    /\ repeat = FALSE
    /\ prev_pkgs = {}
    /\ cycles = 0
    /\ faulty = FALSE
    /\ raising = {}
    /\ last_read = NoRead
    /\ store_calls = 0
    /\ args = NoArgs
    /\ todo_sources = <<>>
    /\ todo_packages = <<>>
    /\ done_sources = <<>>
    /\ done_packages = <<>>
    /\ _packages_data = NoRow
    /\ cache_age = -1

\* ------------------------------------------ store calls outside a cycle
\* db.add_source_version(name, version, origin), as cli.py do_source calls it
\* on an export (lines 27 and 36).
AddSourceVersionCall(s, v, o) ==
    /\ pc \in {"idle", "done"}
    /\ store_calls < MaxStoreCalls
    /\ \E ts \in ClockReads :
          /\ self_db' = add_source_version(self_db, s, v, o, ts)
          /\ now' = ts
    /\ last_write' = Written(Call("add_source_version", s, v, o), TRUE,
                             TimestampOf(self_db, s, v, o))
    /\ pc' = "idle"
    /\ store_calls' = store_calls + 1
    /\ last_read' = NoRead
    /\ UNCHANGED <<upstream_sources, snap, existing_sources, existing_packages,
                   existing_owner, repeat, prev_pkgs, cycles, faulty,
                   raising, run_vars, loop_vars, events, calls>>

\* db.add_package_metadata(source, name), as cli.py do_package calls it on an
\* export (line 78).
AddPackageMetadataCall(s, p, fields) ==
    /\ pc \in {"idle", "done"}
    /\ store_calls < MaxStoreCalls
    /\ self_db' = add_package_metadata(self_db, s, p, fields)
    /\ last_write' = [Written(Call("add_package_metadata", s, p, None),
                              add_package_metadata_ok(self_db, s), -1)
                         EXCEPT !.fields = fields,
                                !.old = stored_fields(self_db,
                                            IF p = None THEN s ELSE p)]
    /\ pc' = "idle"
    /\ store_calls' = store_calls + 1
    /\ last_read' = NoRead
    /\ UNCHANGED <<now, upstream_sources, snap, existing_sources,
                   existing_packages, existing_owner, repeat, prev_pkgs,
                   cycles, faulty, raising, run_vars, loop_vars, events,
                   calls>>

\* ------------------------------------------- update_database, step by step
\* Lines 69-77: read the baseline, reset the tracking sets.
Begin(ups, sn, rep) ==
    /\ pc \in {"idle", "done"}
    /\ cycles < MaxCycles
    /\ cycles' = cycles + 1
    /\ pc' = "running"
    /\ upstream_sources' = ups
    /\ prev_pkgs' = DOMAIN snap.pkgs
    /\ snap' = sn
    /\ repeat' = rep
    /\ existing_sources' = get_all_source_names(self_db)
    /\ existing_packages' = get_all_package_names(self_db)
    /\ existing_owner' = [p \in {x \in get_all_package_names(self_db) :
                                    get_package_by_name(self_db, x) # NoRow}
                             |-> get_package_by_name(self_db, p)[2]]
    /\ current_sources' = {}
    /\ current_packages' = {}
    /\ cur_source' = None
    /\ upstream_todo' = <<>>
    /\ swept_packages' = {}
    /\ swept_sources' = {}
    /\ events' = EmptyBag
    /\ calls' = EmptyBag
    /\ UNCHANGED <<self_db, now, last_write, faulty, raising, last_read,
                   store_calls, run_vars>>

\* update_database is called: the snapshot is pulled from the distribution
\* and the provider, which may be as the previous cycle found them.
StartCycle ==
    \E in \in CycleInputs :
        Begin(in.ups, in.snap,
              pc = "done" /\ in.snap = snap /\ in.ups = upstream_sources)

\* Lines 80-105: the next source of all_sources(): its local version.
ProcessSourceLocal(s) ==
    /\ pc = "running"
    /\ upstream_todo = <<>>
    /\ s \in DOMAIN snap.sources \ current_sources
    /\ current_sources' = current_sources \cup {s}
    /\ cur_source' = s
    /\ LET is_new_source == s \notin existing_sources
           local_version == local_version_of(snap.sources[s])
           call == Call("add_source_version", s, local_version, local)
       IN  IF local_version = Raises
           THEN /\ pc' = "aborted"
                /\ upstream_todo' = <<>>
                /\ UNCHANGED <<self_db, now, calls, last_write, events>>
           ELSE
             /\ \E current_local_version \in
                      get_latest_version_of(self_db, s, local) :
                  IF version_changed(current_local_version, local_version)
                  THEN \E w \in add_source_version_results(self_db, s,
                                                          local_version, local) :
                         /\ self_db' = w.db
                         /\ now' = w.ts
                         /\ calls' = Log(calls, call)
                         /\ last_write' = WrittenAs(call, w,
                               TimestampOf(self_db, s, local_version, local))
                         /\ pc' = IF w.raised THEN AfterWrite(w)
                                  ELSE AfterCallback("on_local_version_updated",
                                           reports_update(is_new_source))
                         /\ events' = IF ~w.raised
                                         /\ reports_update(is_new_source)
                                      THEN Log(events,
                                               Event("on_local_version_updated",
                                                     s, local_version, local))
                                      ELSE events
                  ELSE UNCHANGED <<self_db, now, calls, last_write, events, pc>>
             /\ upstream_todo' = IF pc' = "running" THEN upstream_sources
                                 ELSE <<>>
    /\ UNCHANGED <<cycle_vars, current_packages, swept_packages,
                   swept_sources>>

\* Lines 108-125: the next upstream origin of the current source.  The try
\* block encloses the provider call, the store call and the callback:
\* whatever is raised there ends the handling of this origin only.
ProcessSourceUpstream ==
    /\ pc = "running"
    /\ upstream_todo # <<>>
    /\ upstream_todo' = Tail(upstream_todo)
    /\ LET upstream == Head(upstream_todo)
           is_new_source == cur_source \notin existing_sources
           upstream_version == snap.upstream[cur_source]
           call == Call("add_source_version", cur_source, upstream_version,
                        upstream)
       IN  IF upstream_version = Raises
           THEN /\ pc' = AfterUpstream(TRUE)
                /\ UNCHANGED <<self_db, now, calls, last_write, events>>
           ELSE
           IF upstream = nixos /\ upstream_present(upstream_version)
           THEN \E current_upstream_version \in
                        get_latest_version_of(self_db, cur_source, upstream) :
                  IF version_changed(current_upstream_version,
                                     upstream_version)
                  THEN \E w \in add_source_version_results(self_db, cur_source,
                                       upstream_version, upstream) :
                         /\ self_db' = w.db
                         /\ now' = w.ts
                         /\ calls' = Log(calls, call)
                         /\ last_write' = WrittenAs(call, w,
                               TimestampOf(self_db, cur_source, upstream_version,
                                           upstream))
                         /\ events' = IF ~w.raised
                                         /\ reports_update(is_new_source)
                                      THEN Log(events,
                                             Event("on_upstream_version_updated",
                                                   cur_source, upstream_version,
                                                   upstream))
                                      ELSE events
                         /\ pc' = AfterUpstream(
                                     \/ w.raised
                                     \/ /\ reports_update(is_new_source)
                                        /\ callback_raises(
                                              "on_upstream_version_updated"))
                  ELSE /\ pc' = AfterUpstream(FALSE)
                       /\ UNCHANGED <<self_db, now, calls, last_write, events>>
           ELSE /\ pc' = AfterUpstream(FALSE)
                /\ UNCHANGED <<self_db, now, calls, last_write, events>>
    /\ UNCHANGED <<cycle_vars, current_sources, current_packages,
                   cur_source, swept_packages, swept_sources>>

SourcesDone ==
    /\ pc = "running"
    /\ current_sources = DOMAIN snap.sources
    /\ upstream_todo = <<>>

\* Lines 128-154: the next package of all_pkgs().
ProcessPackage(p) ==
    /\ SourcesDone
    /\ p \in DOMAIN snap.pkgs \ current_packages
    /\ current_packages' = current_packages \cup {p}
    /\ LET package_source == snap.pkgs[p]
           metadata == _extract_package_metadata(snap.yml[p])
           existing_package == get_package_by_name(self_db, p)
           call == Call("add_package_metadata", package_source, p, None)
           added == AfterCallback("on_package_added",
                                  reports_added(existing_package))
       IN  /\ events' = IF reports_added(existing_package)
                        THEN Log(events, Event("on_package_added", p,
                                               package_source, None))
                        ELSE events
           /\ IF added = "aborted"
              THEN /\ pc' = added
                   /\ UNCHANGED <<self_db, calls, last_write>>
              ELSE \E w \in add_package_metadata_results(self_db,
                                           package_source, p, metadata) :
                     /\ self_db' = w.db
                     /\ calls' = Log(calls, call)
                     /\ last_write' = [WrittenAs(call, w, -1)
                                          EXCEPT !.fields = metadata,
                                                 !.old = stored_fields(self_db,
                                                                       p)]
                     /\ pc' = AfterWrite(w)
    /\ UNCHANGED <<now, cycle_vars, current_sources, cur_source,
                   upstream_todo, swept_packages, swept_sources>>

PackagesDone == SourcesDone /\ current_packages = DOMAIN snap.pkgs

\* every stored package taken for removed
removed_packages_all == existing_packages

\* cron.py line 157
removed_packages == existing_packages \ current_packages

\* Lines 157-170: the next removed package.
RemovePackage(p) ==
    /\ PackagesDone
    /\ p \in removed_packages \ swept_packages
    /\ swept_packages' = swept_packages \cup {p}
    /\ LET package_info == get_package_by_name(self_db, p)
           removed == AfterCallback("on_package_removed",
                                    package_info # NoRow)
       IN  /\ events' = IF package_info # NoRow
                        THEN Log(events, Event("on_package_removed", p,
                                               package_info[2], None))
                        ELSE events
           /\ IF removed = "aborted"
              THEN /\ pc' = removed
                   /\ UNCHANGED <<self_db, calls, last_write>>
              ELSE /\ \E w \in delete_package_results(self_db, p) :
                        /\ self_db' = w.db
                        /\ last_write' = WrittenAs(
                              Call("delete_package", p, None, None), w, -1)
                        /\ pc' = AfterWrite(w)
                   /\ calls' = Log(calls,
                                   Call("delete_package", p, None, None))
    /\ UNCHANGED <<now, cycle_vars, current_sources, current_packages,
                   cur_source, upstream_todo, swept_sources>>

RemovedPackagesDone == PackagesDone /\ swept_packages = removed_packages

\* the sweep of removed sources left out
removed_sources_none == {}

\* cron.py line 173
removed_sources == existing_sources \ current_sources

\* Lines 177-186 for every package the removed source still has.
RECURSIVE delete_each_package(_, _)
delete_each_package(db, package_names) ==
    IF package_names = {} THEN db
    ELSE LET p == CHOOSE x \in package_names : TRUE
         IN  delete_each_package(delete_package(db, p), package_names \ {p})

\* Lines 174-192: the next removed source: read its packages from the store,
\* report and delete each of them, then delete the source.  The deletes of
\* the packages in failed are the ones on which the storage failed.  A
\* subscriber that raises does so at the first package of the loop.
SweepSource(s) ==
    /\ RemovedPackagesDone
    /\ s \in removed_sources \ swept_sources
    /\ swept_sources' = swept_sources \cup {s}
    /\ LET packages == get_packages_by_source_name(self_db, s)
       IN  IF AfterCallback("on_package_removed", packages # {}) = "aborted"
           THEN \E p \in packages :
                  /\ events' = Log(events,
                                   Event("on_package_removed", p, s, None))
                  /\ pc' = "aborted"
                  /\ UNCHANGED <<self_db, calls, last_write>>
           ELSE
           \E failed \in (IF faulty THEN SUBSET packages ELSE {{}}) :
             LET emptied == delete_each_package(self_db, packages \ failed)
                 stops == failed # {} /\ storage_error_result.raised
             IN  /\ events' = events (+) SetToBag(
                        {Event("on_package_removed", p, s, None) :
                            p \in packages})
                 /\ IF stops
                    THEN /\ calls' = calls (+) SetToBag(
                                {Call("delete_package", p, None, None) :
                                    p \in packages})
                         /\ self_db' = emptied
                         /\ last_write' = Faulted(Call("delete_package",
                               CHOOSE p \in failed : TRUE, None, None), -1)
                         /\ pc' = "aborted"
                    ELSE \E w \in delete_source_results(emptied, s) :
                         /\ calls' = calls (+) SetToBag(
                                {Call("delete_package", p, None, None) :
                                    p \in packages}
                                \cup {Call("delete_source", s, None, None)})
                         /\ self_db' = w.db
                         /\ last_write' = WrittenAs(
                               Call("delete_source", s, None, None), w, -1)
                         /\ pc' = AfterWrite(w)
    /\ UNCHANGED <<now, cycle_vars, current_sources, current_packages,
                   cur_source, upstream_todo, swept_packages>>

\* Line 194: the cycle is complete.
Finish ==
    /\ RemovedPackagesDone
    /\ swept_sources = removed_sources
    /\ pc' = "done"
    /\ UNCHANGED <<self_db, now, cycle_vars, loop_vars, events, calls, last_write>>

CycleStep ==
    \/ \E s \in SourceNames : ProcessSourceLocal(s)
    \/ ProcessSourceUpstream
    \/ \E p \in PackageNames : ProcessPackage(p)
    \/ \E p \in PackageNames : RemovePackage(p)
    \/ \E s \in SourceNames : SweepSource(s)
    \/ Finish

Next ==
    \/ StartCycle
    \/ CycleStep

\* The reconciliation cycles on the version store.
Spec == Init /\ [][Next]_vars

NextStore ==
    \/ \E s \in SourceNames, v \in VersionStrings, o \in {local, nixos} :
          AddSourceVersionCall(s, v, o)
    \/ \E s \in SourceNames, p \in PackageNames :
          AddPackageMetadataCall(s, p, NoMetadata)

\* The version store alone, under a sequence of calls.
SpecStore == Init /\ [][NextStore]_vars

\* ------------------------------------------------ the store's interface
\* calls in one behaviour of the store's interface
MaxApiCalls == 2

\* the packages for which the SMTP connection fails: none, one of them, or
\* all, the source names that stand for a package included
Unreachable == {{}, {"p1"}, {"p2"}, PackageNames \cup SourceNames}

\* a package with all six metadata fields
AllMetadata ==
    [maintainer |-> "Jo <jo@x>", homepage_url |-> "url", license |-> "MIT",
     category |-> "base, libs", summary |-> "text", description |-> "long"]

\* the metadata a call passes: none, or all six fields
MetadataInputs == {NoMetadata, AllMetadata}

\* The store a cycle leaves for a distribution of the sources s1 and s2 in
\* which s1 builds the packages p1 and p2 (cron.py lines 79-154).
TrackedStore ==
    LET with_s1 == add_source_version(EmptyDb, "s1", BaseVersion, local, 0)
        with_s2 == add_source_version(with_s1, "s2", BaseVersion, local, 0)
        with_p1 == add_package_metadata(with_s2, "s1", "p1", AllMetadata)
    IN  add_package_metadata(with_p1, "s1", "p2", NoMetadata)

\* The store of a source s1 whose package p1 has a maintainer field with
\* an address before empty angle brackets, and whose package p2 has a
\* maintainer field without an address.
BracketStore ==
    LET with_s1 == add_source_version(EmptyDb, "s1", BaseVersion, local, 0)
        with_p1 == add_package_metadata(with_s1, "s1", "p1",
                       [NoMetadata EXCEPT !.maintainer = "jo@x <>"])
    IN  add_package_metadata(with_p1, "s1", "p2",
                       [NoMetadata EXCEPT !.maintainer = "s"])

\* The database file the web backend and the notifier open: a new one, one
\* an export left, or one a cycle left.
ApiStores == InitialStores \cup {TrackedStore, BracketStore}

InitApi ==
    /\ self_db \in ApiStores
    /\ now = 0
    /\ pc = "idle"
    /\ upstream_sources = <<>>
    /\ snap = EmptySnapshot
    /\ existing_sources = {}
    /\ existing_packages = {}
    /\ existing_owner = <<>>
    /\ current_sources = {}
    /\ current_packages = {}
    /\ cur_source = None
    /\ upstream_todo = <<>>
    /\ swept_packages = {}
    /\ swept_sources = {}
    /\ events = EmptyBag
    /\ calls = EmptyBag
    /\ last_write = Written(Call(None, None, None, None), TRUE, -1)
    /\ repeat = FALSE
    /\ prev_pkgs = {}
    /\ cycles = 0
    /\ faulty = FALSE
    /\ raising = {}
    /\ last_read = NoRead
    /\ store_calls = 0
    /\ args = NoArgs
    /\ todo_sources = <<>>
    /\ todo_packages = <<>>
    /\ done_sources = <<>>
    /\ done_packages = <<>>
    /\ _packages_data = NoRow
    /\ cache_age = -1

\* db.search_sources(search_term)
SearchSourcesCall(search_term) ==
    /\ pc = "idle"
    /\ \E out \in search_sources(self_db, search_term) :
          last_read' = Read("search_sources", search_term, None, out)
    /\ store_calls' = store_calls + 1
    /\ UNCHANGED <<self_db, now, pc, call_frame, loop_vars, events,
                   calls, last_write>>

\* db.get_latest_version(source_name)
GetLatestVersionCall(source_name) ==
    /\ pc = "idle"
    /\ \E value \in get_latest_version(self_db, source_name) :
          last_read' = Read("get_latest_version", source_name, None,
                            Returned(value))
    /\ store_calls' = store_calls + 1
    /\ UNCHANGED <<self_db, now, pc, call_frame, loop_vars, events,
                   calls, last_write>>

\* db.get_latest_version_from_source(source_name, repository_source)
GetLatestVersionFromSourceCall(source_name, repository_source) ==
    /\ pc = "idle"
    /\ \E value \in get_latest_version_from_source(self_db, source_name,
                                                    repository_source) :
          last_read' = Read("get_latest_version_from_source", source_name,
                            repository_source, Returned(value))
    /\ store_calls' = store_calls + 1
    /\ UNCHANGED <<self_db, now, pc, call_frame, loop_vars, events,
                   calls, last_write>>

\* db.delete_package(package_name)
DeletePackageCall(package_name) ==
    /\ pc = "idle"
    /\ self_db' = delete_package(self_db, package_name)
    /\ last_write' = Written(Call("delete_package", package_name, None, None),
                             TRUE, -1)
    /\ last_read' = NoRead
    /\ store_calls' = store_calls + 1
    /\ UNCHANGED <<now, pc, call_frame, loop_vars, events, calls>>

\* db.delete_source(source_name)
DeleteSourceCall(source_name) ==
    /\ pc = "idle"
    /\ self_db' = delete_source(self_db, source_name)
    /\ last_write' = Written(Call("delete_source", source_name, None, None),
                             delete_source_ok(self_db, source_name), -1)
    /\ last_read' = NoRead
    /\ store_calls' = store_calls + 1
    /\ UNCHANGED <<now, pc, call_frame, loop_vars, events, calls>>

\* notify_package_update(source_name, version, repository, db,
\* email_notifier), as the callback of cron.py lines 373-377 calls it
NotifyPackageUpdateCall(source_name, version, repository, email_notifier, unreachable) ==
    /\ pc = "idle"
    /\ \E outcome \in notify_package_update(self_db, source_name, version,
                                             repository, email_notifier,
                                             unreachable) :
          last_read' = Read("notify_package_update", source_name, version,
                            [raised |-> outcome.raised,
                             value |-> [repository |-> repository,
                                        email_notifier |-> email_notifier,
                                        unreachable |-> unreachable,
                                        queried |-> outcome.queried,
                                        sends |-> outcome.sends,
                                        returned |-> outcome.returned]])
    /\ store_calls' = store_calls + 1
    /\ UNCHANGED <<self_db, now, pc, call_frame, loop_vars, events,
                   calls, last_write>>

ApiWrite ==
    /\ store_calls < MaxApiCalls
    /\ \/ \E s \in SourceNames, v \in StoreVersions, o \in {local, nixos} :
             AddSourceVersionCall(s, v, o)
       \/ \E s \in SourceNames, p \in PackageNames \cup {None},
               fields \in MetadataInputs :
             AddPackageMetadataCall(s, p, fields)
       \/ \E p \in PackageNames : DeletePackageCall(p)
       \/ \E s \in SourceNames : DeleteSourceCall(s)

ApiRead ==
    /\ store_calls < MaxApiCalls
    /\ \/ \E search_term \in SearchTerms : SearchSourcesCall(search_term)
       \/ \E s \in SourceNames : GetLatestVersionCall(s)
       \/ \E s \in SourceNames, o \in {local, nixos} :
             GetLatestVersionFromSourceCall(s, o)
       \/ \E s \in SourceNames, v \in VersionStrings,
               email_notifier \in BOOLEAN :
             \E unreachable \in IF email_notifier THEN Unreachable ELSE {{}} :
                NotifyPackageUpdateCall(s, v, nixos, email_notifier,
                                        unreachable)

NextApi ==
    \/ ApiWrite
    \/ ApiRead

\* The store under a sequence of calls of its interface.
SpecApi == InitApi /\ [][NextApi]_vars

\* --------------------------------------------- cycles on a failing storage
\* What reading source.version can do (cron.py lines 86-94): give the
\* declared version, raise RollingIdUnavailableError or raise something else.
VersionReadings == {BaseVersion, RollingIdUnavailable, Raises}

\* Cycles over a distribution of two sources with one package each, and over
\* an empty distribution, in which reading a version and asking the provider
\* can raise.
FaultyInputs ==
    UNION {{[ups |-> <<nixos>>,
             snap |-> [sources |-> [s \in SourceNames |->
                                      IF s \in NixosNames THEN r
                                      ELSE BaseVersion],
                       upstream |-> [s \in SourceNames |->
                                      IF s \in NixosNames THEN a ELSE None],
                       pkgs |-> [p \in PackageNames |->
                                      IF p = "p1" THEN "s1" ELSE "s2"],
                       yml |-> [p \in PackageNames |-> plain_package]]] :
               a \in IF r = BaseVersion THEN {"1.1", Raises} ELSE {Raises}} :
           r \in VersionReadings}
    \cup {[ups |-> <<nixos>>, snap |-> EmptySnapshot]}

\* The storage can fail in every call; the clock stands at its last second.
InitFaulty ==
    /\ self_db = EmptyDb
    /\ now = MaxClock
    /\ pc = "idle"
    /\ upstream_sources = <<>>
    /\ snap = EmptySnapshot
    /\ existing_sources = {}
    /\ existing_packages = {}
    /\ existing_owner = <<>>
    /\ current_sources = {}
    /\ current_packages = {}
    /\ cur_source = None
    /\ upstream_todo = <<>>
    /\ swept_packages = {}
    /\ swept_sources = {}
    /\ events = EmptyBag
    /\ calls = EmptyBag
    /\ last_write = Written(Call(None, None, None, None), TRUE, -1)
    /\ repeat = FALSE
    /\ prev_pkgs = {}
    /\ cycles = 0
    /\ faulty = TRUE
    /\ raising = {}
    /\ last_read = NoRead
    /\ store_calls = 0
    /\ args = NoArgs
    /\ todo_sources = <<>>
    /\ todo_packages = <<>>
    /\ done_sources = <<>>
    /\ done_packages = <<>>
    /\ _packages_data = NoRow
    /\ cache_age = -1

StartFaultyCycle ==
    \E in \in FaultyInputs :
        Begin(in.ups, in.snap,
              pc = "done" /\ in.snap = snap /\ in.ups = upstream_sources)

NextFaulty ==
    \/ StartFaultyCycle
    \/ CycleStep

\* update_database runs in one thread from its first line to its last: a
\* step that can be taken is taken.
SpecFaulty == InitFaulty /\ [][NextFaulty]_vars /\ WF_vars(CycleStep)

\* ------------------------------------------ cycles with raising subscribers
\* the four callbacks of the updater (cron.py lines 53-56)
Callbacks ==
    {"on_package_added", "on_package_removed", "on_local_version_updated",
     "on_upstream_version_updated"}

\* Cycles over a distribution of two sources with one package each, whose
\* declared version and provider answer vary, and over an empty distribution.
RaisingInputs ==
    {[ups |-> <<nixos>>,
      snap |-> [sources |-> [s \in SourceNames |-> v],
                upstream |-> [s \in SourceNames |->
                                 IF s \in NixosNames THEN a ELSE None],
                pkgs |-> [p \in PackageNames |->
                             IF p = "p1" THEN "s1" ELSE "s2"],
                yml |-> [p \in PackageNames |-> plain_package]]] :
        v \in VersionStrings, a \in VersionStrings}
    \cup {[ups |-> <<nixos>>, snap |-> EmptySnapshot]}

\* The updater is constructed with four subscribers, one of which raises
\* whenever it is called.
InitRaising ==
    /\ self_db \in InitialStores
    /\ now = 0
    /\ pc = "idle"
    /\ upstream_sources = <<>>
    /\ snap = EmptySnapshot
    /\ existing_sources = {}
    /\ existing_packages = {}
    /\ existing_owner = <<>>
    /\ current_sources = {}
    /\ current_packages = {}
    /\ cur_source = None
    /\ upstream_todo = <<>>
    /\ swept_packages = {}
    /\ swept_sources = {}
    /\ events = EmptyBag
    /\ calls = EmptyBag
    /\ last_write = Written(Call(None, None, None, None), TRUE, -1)
    /\ repeat = FALSE
    /\ prev_pkgs = {}
    /\ cycles = 0
    /\ faulty = FALSE
    /\ raising \in {{cb} : cb \in Callbacks}
    /\ last_read = NoRead
    /\ store_calls = 0
    /\ args = NoArgs
    /\ todo_sources = <<>>
    /\ todo_packages = <<>>
    /\ done_sources = <<>>
    /\ done_packages = <<>>
    /\ _packages_data = NoRow
    /\ cache_age = -1

StartRaisingCycle ==
    \E in \in RaisingInputs :
        Begin(in.ups, in.snap,
              pc = "done" /\ in.snap = snap /\ in.ups = upstream_sources)

NextRaising ==
    \/ StartRaisingCycle
    \/ CycleStep

SpecRaising == InitRaising /\ [][NextRaising]_vars /\ WF_vars(CycleStep)

\* ------------------------------------------ cycles over package metadata
\* Cycles over a distribution of two sources in which the package p1 varies
\* its source and its yml, and over an empty distribution.
MetadataCycleInputs ==
    {[ups |-> <<nixos>>,
      snap |-> [sources |-> [s \in SourceNames |-> BaseVersion],
                upstream |-> [s \in SourceNames |-> None],
                pkgs |-> [p \in {"p1"} |-> package_source],
                yml |-> [p \in {"p1"} |-> package]]] :
        package_source \in SourceNames, package \in Packages}
    \cup {[ups |-> <<nixos>>, snap |-> EmptySnapshot]}

\* The updater opens a new database file or one a cycle left.
InitMetadata ==
    /\ self_db \in {EmptyDb, TrackedStore}
    /\ now = 0
    /\ pc = "idle"
    /\ upstream_sources = <<>>
    /\ snap = EmptySnapshot
    /\ existing_sources = {}
    /\ existing_packages = {}
    /\ existing_owner = <<>>
    /\ current_sources = {}
    /\ current_packages = {}
    /\ cur_source = None
    /\ upstream_todo = <<>>
    /\ swept_packages = {}
    /\ swept_sources = {}
    /\ events = EmptyBag
    /\ calls = EmptyBag
    /\ last_write = Written(Call(None, None, None, None), TRUE, -1)
    /\ repeat = FALSE
    /\ prev_pkgs = {}
    /\ cycles = 0
    /\ faulty = FALSE
    /\ raising = {}
    /\ last_read = NoRead
    /\ store_calls = 0
    /\ args = NoArgs
    /\ todo_sources = <<>>
    /\ todo_packages = <<>>
    /\ done_sources = <<>>
    /\ done_packages = <<>>
    /\ _packages_data = NoRow
    /\ cache_age = -1

StartMetadataCycle ==
    \E in \in MetadataCycleInputs :
        Begin(in.ups, in.snap,
              pc = "done" /\ in.snap = snap /\ in.ups = upstream_sources)

NextMetadata ==
    \/ StartMetadataCycle
    \/ CycleStep

SpecMetadata == InitMetadata /\ [][NextMetadata]_vars /\ WF_vars(CycleStep)

\* ------------------------------------------- cycles over respelled versions
\* Cycles over a distribution of the sources s1 and s2 and the package p1 in
\* which s1 declares, and the provider answers for s1, a version in one of
\* its spellings; and over an empty distribution.
RespelledInputs ==
    {[ups |-> <<nixos>>,
      snap |-> [sources |-> [s \in SourceNames |->
                               IF s \in NixosNames THEN declared
                               ELSE BaseVersion],
                upstream |-> [s \in SourceNames |->
                               IF s \in NixosNames THEN answer ELSE None],
                pkgs |-> [p \in {"p1"} |-> "s1"],
                yml |-> [p \in {"p1"} |-> plain_package]]] :
        declared \in StoreVersions, answer \in StoreVersions \cup {None}}
    \cup {[ups |-> <<nixos>>, snap |-> EmptySnapshot]}

StartRespelledCycle ==
    \E in \in RespelledInputs :
        Begin(in.ups, in.snap,
              pc = "done" /\ in.snap = snap /\ in.ups = upstream_sources)

NextRespelled ==
    \/ StartRespelledCycle
    \/ CycleStep

SpecRespelled == InitMetadata /\ [][NextRespelled]_vars /\ WF_vars(CycleStep)

\* ------------------------------------------------- calls of the comparator
\* the version strings the comparator is called with: two spellings of one
\* version, two later releases, and the pre-release of the last one
ComparedVersions == {"1.0", "1.0.0", "1.0.1", "2.0.0~rc1", "2.0.0"}

\* calls in one behaviour of the comparator
MaxCompareCalls == 3

\* nothing has run yet, and the database file is new
InitIdle ==
    /\ self_db = EmptyDb
    /\ now = 0
    /\ pc = "idle"
    /\ upstream_sources = <<>>
    /\ snap = EmptySnapshot
    /\ existing_sources = {}
    /\ existing_packages = {}
    /\ existing_owner = <<>>
    /\ current_sources = {}
    /\ current_packages = {}
    /\ cur_source = None
    /\ upstream_todo = <<>>
    /\ swept_packages = {}
    /\ swept_sources = {}
    /\ events = EmptyBag
    /\ calls = EmptyBag
    /\ last_write = Written(Call(None, None, None, None), TRUE, -1)
    /\ repeat = FALSE
    /\ prev_pkgs = {}
    /\ cycles = 0
    /\ faulty = FALSE
    /\ raising = {}
    /\ last_read = NoRead
    /\ store_calls = 0
    /\ args = NoArgs
    /\ todo_sources = <<>>
    /\ todo_packages = <<>>
    /\ done_sources = <<>>
    /\ done_packages = <<>>
    /\ _packages_data = NoRow
    /\ cache_age = -1

\* db.compare_two_versions(version1, version2), as sorted() and the web
\* backend call it on the latest versions of two origins; calls keeps what
\* it was called with and what it returned
CompareTwoVersionsCall(version1, version2) ==
    /\ pc = "idle"
    /\ store_calls < MaxCompareCalls
    /\ LET result == compare_two_versions(version1, version2)
       IN  calls' = Log(calls, Call("compare_two_versions", version1[1],
                                    version2[1], result))
    /\ store_calls' = store_calls + 1
    /\ UNCHANGED <<self_db, now, pc, call_frame, loop_vars, events,
                   last_write, last_read>>

NextCompare ==
    \E v1 \in ComparedVersions, v2 \in ComparedVersions :
       CompareTwoVersionsCall(<<v1, local, "">>, <<v2, nixos, "">>)

\* The comparator under a sequence of calls.
SpecCompare == InitIdle /\ [][NextCompare]_vars

\* ------------------------------------------------ the command-line export
\* list arguments of at most this length
MaxListLen == 2

\* The packages of the distribution and the source each is built from
\* (distro.get_target_pkg, package.source): one package has the name of its
\* source, as a source with a package of its own name and further packages
\* has.
dist_packages == [p \in {"p1", "p2", "s1"} |-> IF p = "p2" THEN "s2" ELSE "s1"]

\* reading dist_source.version raises AssertionError
AssertionFailed == "<assertion failed>"

\* what the updater's frame of a behaviour holds
updater_vars == <<upstream_sources, snap, existing_sources, existing_packages,
                  existing_owner, repeat, prev_pkgs, cycles, faulty, raising,
                  loop_vars, events, last_write>>

\* cli.py lines 12-41 without --upstream: what a call of do_source can do to
\* the store and to the list it was handed.  It returns at once for a name
\* in the list and after an AssertionError, and appends the name otherwise.
do_source(db, export_db, dist_source, done) ==
    IF \E i \in DOMAIN done : done[i] = dist_source
    THEN {[db |-> db, ts |-> now, calls |-> EmptyBag, done |-> done]}
    ELSE UNION {
      IF reading = AssertionFailed
      THEN {[db |-> db, ts |-> now, calls |-> EmptyBag, done |-> done]}
      ELSE IF export_db
      THEN {[db |-> w.db, ts |-> w.ts,
             calls |-> SetToBag({Call("add_source_version", dist_source,
                                      local_version_of(reading), local)}),
             done |-> Append(done, dist_source)] :
               w \in add_source_version_results(db, dist_source,
                                                local_version_of(reading),
                                                local)}
      ELSE {[db |-> db, ts |-> now, calls |-> EmptyBag,
             done |-> Append(done, dist_source)]} :
        reading \in {BaseVersion, RollingIdUnavailable, AssertionFailed}}

\* cli.py lines 43-86: do_package returns at once for a name in
\* done_packages; else it calls do_source with done_packages as the list,
\* stores the metadata of the package on an export, and appends the name.
do_package(db, export_db, dist_package, done) ==
    IF \E i \in DOMAIN done : done[i] = dist_package
    THEN {[db |-> db, ts |-> now, calls |-> EmptyBag, done |-> done]}
    ELSE UNION {
      IF export_db
      THEN {[db |-> w.db, ts |-> src.ts,
             calls |-> Log(src.calls,
                           Call("add_package_metadata",
                                dist_packages[dist_package], dist_package,
                                None)),
             done |-> Append(src.done, dist_package)] :
               w \in add_package_metadata_results(
                        src.db, dist_packages[dist_package], dist_package,
                        _extract_package_metadata(plain_package))}
      ELSE {[db |-> src.db, ts |-> src.ts, calls |-> src.calls,
             done |-> Append(src.done, dist_package)]} :
        src \in do_source(db, export_db, dist_packages[dist_package], done)}

\* the lists of length at most n over the names of S
ListsOver(S, n) == UNION {[1..k -> S] : k \in 0..n}

\* cli.py lines 88-120: main parses the options, opens the database and
\* resolves --sources and --packages in the distribution.
Main(export_db, sources, packages) ==
    /\ pc = "idle"
    /\ pc' = "main"
    /\ args' = [export_db |-> export_db, sources |-> sources,
                packages |-> packages]
    /\ todo_sources' = sources
    /\ todo_packages' = packages
    /\ done_sources' = <<>>
    /\ done_packages' = <<>>
    /\ calls' = EmptyBag
    /\ UNCHANGED <<self_db, now, updater_vars, last_read, store_calls,
                   _packages_data, cache_age>>

\* cli.py lines 122-123: the next source of the list
DoSource ==
    /\ pc = "main"
    /\ todo_sources # <<>>
    /\ \E r \in do_source(self_db, args.export_db, Head(todo_sources),
                          done_sources) :
          /\ self_db' = r.db
          /\ now' = r.ts
          /\ calls' = calls (+) r.calls
          /\ done_sources' = r.done
    /\ todo_sources' = Tail(todo_sources)
    /\ UNCHANGED <<pc, args, todo_packages, done_packages, updater_vars,
                   last_read, store_calls, _packages_data, cache_age>>

\* cli.py lines 137-138: the next package of the list, after the sources
DoPackage ==
    /\ pc = "main"
    /\ todo_sources = <<>>
    /\ todo_packages # <<>>
    /\ \E r \in do_package(self_db, args.export_db, Head(todo_packages),
                           done_packages) :
          /\ self_db' = r.db
          /\ now' = r.ts
          /\ calls' = calls (+) r.calls
          /\ done_packages' = r.done
    /\ todo_packages' = Tail(todo_packages)
    /\ UNCHANGED <<pc, args, todo_sources, done_sources, updater_vars,
                   last_read, store_calls, _packages_data, cache_age>>

NextCli ==
    \/ \E export_db \in BOOLEAN,
          sources \in {<<>>, <<"s1">>, <<"s1", "s2">>},
          packages \in ListsOver(DOMAIN dist_packages, MaxListLen) :
          Main(export_db, sources, packages)
    \/ DoSource
    \/ DoPackage

\* One run of the command-line tool on a new database file.
SpecCli == InitIdle /\ [][NextCli]_vars /\ WF_vars(DoSource \/ DoPackage)

\* -------------------------------------------- the distribution's checkout
\* calls of update_git_repository in one behaviour
MaxGitCalls == 2

\* What subprocess.run(..., check=False) can do: return a process that
\* exited with 0 or with another code, or raise (no git executable).
RunOutcomes ==
    {[raised |-> FALSE, returncode |-> 0], [raised |-> FALSE, returncode |-> 1],
     [raised |-> TRUE, returncode |-> -1]}

\* the test of the .git directory alone
is_git_repository_by_directory(git_dir, status) ==
    [value |-> git_dir, ran |-> IF git_dir THEN <<<<"status">>>> ELSE <<>>]

\* cron.py lines 227-250: the .git directory exists and "git status" exits
\* with 0; an exception counts as no.  ran lists the git commands run.
is_git_repository(git_dir, status) ==
    [value |-> git_dir /\ ~status.raised /\ status.returncode = 0,
     ran |-> IF git_dir THEN <<<<"status">>>> ELSE <<>>]

\* cron.py lines 252-291: what update_git_repository returns and the git
\* commands it runs, given the directory test and what the two commands do
update_git_repository(remote, branch, git_dir, status, pull) ==
    LET checked == is_git_repository(git_dir, status)
        cmd == <<"pull", remote>> \o (IF branch # None THEN <<branch>> ELSE <<>>)
    IN  IF ~checked.value
        THEN [value |-> FALSE, ran |-> checked.ran]
        ELSE [value |-> ~pull.raised /\ pull.returncode = 0,
              ran |-> Append(checked.ran, cmd)]

\* updater.update_git_repository(remote, branch) on a checkout in which the
\* .git directory exists or not and the git commands do as given
UpdateGitRepositoryCall(remote, branch, git_dir, status, pull) ==
    /\ pc = "idle"
    /\ store_calls < MaxGitCalls
    /\ LET result == update_git_repository(remote, branch, git_dir, status, pull)
       IN  last_read' = Read("update_git_repository", remote, branch,
                             Returned([value |-> result.value,
                                       ran |-> result.ran,
                                       git_dir |-> git_dir,
                                       status |-> status, pull |-> pull]))
    /\ store_calls' = store_calls + 1
    /\ UNCHANGED <<self_db, now, pc, call_frame, loop_vars, events,
                   calls, last_write>>

NextGit ==
    \E remote \in {"origin", "upstream"}, branch \in {None, "develop"},
       git_dir \in BOOLEAN, status \in RunOutcomes, pull \in RunOutcomes :
       UpdateGitRepositoryCall(remote, branch, git_dir, status, pull)

\* The updater's checkout under a sequence of update_git_repository calls.
SpecGit == InitIdle /\ [][NextGit]_vars

\* ------------------------------------------------- the upstream provider
\* calls of get_version in one behaviour
MaxProviderCalls == 4

\* days the age of the payload file is counted up to
MaxAge == 2

\* nixos.py lines 16-30: download_file is called when always_redownload is
\* set, when there is no file, or when the file is older than one day; a
\* download that succeeds leaves a new file, one that fails leaves what was
\* there (download_file returns False).
_download_package_json(age, always_redownload, reachable) ==
    LET should_download == always_redownload \/ age = -1 \/ age > 1
    IN  [downloaded |-> should_download,
         age |-> IF should_download /\ reachable THEN 0 ELSE age]

\* nixos.py lines 32-44: the property packages_data reads the file, after
\* _download_package_json, only while the class variable is None; open()
\* raises when there is no file.  None is the empty tuple here.
packages_data(data, age, always_redownload, reachable) ==
    IF data = NoRow
    THEN LET file == _download_package_json(age, always_redownload, reachable)
         IN  [data |-> IF file.age = -1 THEN data
                       ELSE <<[packages |-> [s \in NixosNames |->
                                               [version |-> "1.1"]]]>>,
              age |-> file.age, downloaded |-> file.downloaded,
              raised |-> file.age = -1]
    ELSE [data |-> data, age |-> age, downloaded |-> FALSE, raised |-> FALSE]

\* NixOSVersionProvider(always_redownload=...).get_version(package), as
\* cron.py lines 110-112 call it on a new instance (nixos.py lines 53-58);
\* reachable tells whether the download server answers
GetVersionCall(package, always_redownload, reachable) ==
    /\ pc = "idle"
    /\ store_calls < MaxProviderCalls
    /\ LET r == packages_data(_packages_data, cache_age, always_redownload,
                              reachable)
       IN  /\ _packages_data' = r.data
           /\ cache_age' = r.age
           /\ calls' = IF r.downloaded
                       THEN Log(calls, Call("download_file", "packages.json.br",
                                            "nixos_packages.json", None))
                       ELSE calls
           /\ last_read' =
                 Read("get_version", package, None,
                      IF r.raised THEN Raised
                      ELSE Returned(IF package \in DOMAIN r.data[1].packages
                                    THEN r.data[1].packages[package].version
                                    ELSE None))
    /\ store_calls' = store_calls + 1
    /\ UNCHANGED <<self_db, now, pc, updater_vars, args, todo_sources,
                   todo_packages, done_sources, done_packages>>

\* a day passes: the payload file, if there is one, is a day older
DayPasses ==
    /\ pc = "idle"
    /\ cache_age >= 0
    /\ cache_age < MaxAge
    /\ cache_age' = cache_age + 1
    /\ UNCHANGED <<self_db, now, pc, updater_vars, args, todo_sources,
                   todo_packages, done_sources, done_packages, calls,
                   last_read, store_calls, _packages_data>>

\* the process ends and the next one starts: the class is loaded anew
\* (nixos.py line 9)
NewProcess ==
    /\ pc = "idle"
    /\ _packages_data # NoRow
    /\ _packages_data' = NoRow
    /\ UNCHANGED <<self_db, now, pc, updater_vars, args, todo_sources,
                   todo_packages, done_sources, done_packages, calls,
                   last_read, store_calls, cache_age>>

NextNixos ==
    \/ \E package \in SourceNames, always_redownload \in BOOLEAN,
          reachable \in BOOLEAN :
          GetVersionCall(package, always_redownload, reachable)
    \/ DayPasses
    \/ NewProcess

\* The provider's class and its payload file over the calls of get_version,
\* the days and the processes.
SpecNixos == InitIdle /\ [][NextNixos]_vars

\* ================================================================ claims
HasFact(db, source_name, version, source) ==
    TimestampOf(db, source_name, version, source) >= 0

\* how often a callback was invoked in this cycle with first argument a
CountEvents(cb, a) ==
    BagCardinality([e \in {x \in DOMAIN events : x.cb = cb /\ x.a = a}
                      |-> events[e]])

CountCalls(op, a) ==
    BagCardinality([c \in {x \in DOMAIN calls : x.op = op /\ x.a = a}
                      |-> calls[c]])

VersionCallbacks == {"on_local_version_updated", "on_upstream_version_updated"}

\* sources stored at cycle start that the snapshot lacks
GoneSources == existing_sources \ DOMAIN snap.sources

\* the packages a source had at cycle start
Owned(s) == {p \in DOMAIN existing_owner : existing_owner[p] = s}

\* ---- C1
\* C1: when a cycle has run to its end over the same snapshot as the cycle
\* before it, it has invoked none of the four callbacks.
C1_SecondRunSilent == (pc = "done" /\ repeat) => events = EmptyBag

\* ---- C2
\* C2: no version-update callback is invoked for a source that was not stored
\* at cycle start, and at the end of the cycle the declared version of every
\* such source, and the version the provider reported for it, are stored.
C2_NewSourceSuppressed ==
    /\ \A e \in DOMAIN events :
          e.cb \in VersionCallbacks => e.a \in existing_sources
    /\ pc = "done" =>
          \A s \in DOMAIN snap.sources \ existing_sources :
             /\ HasFact(self_db, s, snap.sources[s], local)
             /\ (upstream_sources # <<>> /\ snap.upstream[s] \in VersionStrings)
                   => HasFact(self_db, s, snap.upstream[s], nixos)

C2_Witness ==
    /\ pc = "done"
    /\ \E s \in DOMAIN snap.sources \ existing_sources :
          /\ snap.upstream[s] \in VersionStrings
          /\ HasFact(self_db, s, snap.sources[s], local)
          /\ HasFact(self_db, s, snap.upstream[s], nixos)
          /\ CountCalls("add_source_version", s) = 2
          /\ \A cb \in VersionCallbacks : CountEvents(cb, s) = 0

LocalStepOf(s) == s \notin current_sources /\ s \in current_sources'

\* C4: the step that handles the local version of a source stored at cycle
\* start writes the declared version and invokes on_local_version_updated
\* (source, declared, 'local'), not invoked before in this cycle, when the
\* declared version is not the store's latest 'local' version; it changes
\* neither the store nor the callbacks when the declared version is the
\* store's latest; and no other step of the cycle invokes the callback for
\* the source.
C4_Step ==
    \A s \in SourceNames :
       /\ (LocalStepOf(s) /\ s \in existing_sources) =>
             LET v == snap.sources[s]
                 latest == get_latest_version_of(self_db, s, local)
                 ev == Event("on_local_version_updated", s, v, local)
             IN  /\ v \notin latest =>
                       /\ HasFact(self_db', s, v, local)
                       /\ calls' = Log(calls, Call("add_source_version", s, v,
                                                  local))
                       /\ CountEvents("on_local_version_updated", s) = 0
                       /\ events' = Log(events, ev)
                 /\ latest = {v} =>
                       /\ self_db' = self_db
                       /\ calls' = calls
                       /\ events' = events
       /\ CountEvents("on_local_version_updated", s)'
             > CountEvents("on_local_version_updated", s) => LocalStepOf(s)

C4_KnownSourceLocal == [][C4_Step]_vars

C4_Witness ==
    /\ pc = "done"
    /\ \E s, t \in DOMAIN snap.sources \cap existing_sources :
          /\ CountEvents("on_local_version_updated", s) = 1
          /\ CountCalls("add_source_version", s) = 1
          /\ CountEvents("on_local_version_updated", t) = 0
          /\ CountCalls("add_source_version", t) = 0

\* ---- C5
\* the step that handles an upstream origin of a source stored at cycle start
UpstreamStepOfKnown ==
    /\ upstream_todo # <<>>
    /\ upstream_todo' = Tail(upstream_todo)
    /\ cur_source \in existing_sources

\* C5 as claimed: the callback is invoked when the provider returns any
\* version other than None that is not the stored latest version of the
\* origin, the empty string included.
C5_Step_Present ==
    UpstreamStepOfKnown =>
       LET v == snap.upstream[cur_source]
           o == Head(upstream_todo)
           latest == get_latest_version_of(self_db, cur_source, o)
           ev == Event("on_upstream_version_updated", cur_source, v, o)
       IN  (v \notin {None, Raises} /\ v \notin latest) =>
              events' = Log(events, ev)

C5_EventIffPresent == [][C5_Step_Present]_vars

\* C5 as amended: the callback is invoked, and the fact written, when the
\* provider returns a non-empty version that is not the stored latest version
\* of the origin; nothing is written and nothing reported when the provider
\* returns None or the empty string, or returns the stored latest version.
C5_Step ==
    UpstreamStepOfKnown =>
       LET v == snap.upstream[cur_source]
           o == Head(upstream_todo)
           latest == get_latest_version_of(self_db, cur_source, o)
           ev == Event("on_upstream_version_updated", cur_source, v, o)
       IN  /\ (v \in VersionStrings /\ v \notin latest) =>
                 /\ HasFact(self_db', cur_source, v, o)
                 /\ events' = Log(events, ev)
           /\ (v \in {None, EmptyString} \/ latest = {v}) =>
                 /\ self_db' = self_db
                 /\ events' = events

C5_EventIffNonEmpty == [][C5_Step]_vars

C5_Witness ==
    /\ pc = "done"
    /\ cur_source \in existing_sources
    /\ upstream_sources = <<nixos>>
    /\ CountEvents("on_upstream_version_updated", cur_source) = 1
    /\ HasFact(self_db, cur_source, snap.upstream[cur_source], nixos)

\* ---- C6
\* C6 as claimed: at the end of a cycle, for every source stored at cycle
\* start and absent from the snapshot, delete_source was called once and
\* on_package_removed was invoked once for each package it had at cycle start.
C6_OnePerOwned ==
    pc = "done" =>
       \A s \in GoneSources :
          /\ CountCalls("delete_source", s) = 1
          /\ \A p \in Owned(s) : CountEvents("on_package_removed", p) = 1

\* C6 as amended: ... on_package_removed was invoked once for each package it
\* had at cycle start that the snapshot does not list under a source of the
\* snapshot, and not at all for a package that the snapshot lists under one
\* of its sources (the package moved and is kept).
C6_OnePerRemoved ==
    pc = "done" =>
       \A s \in GoneSources :
          /\ CountCalls("delete_source", s) = 1
          /\ \A p \in Owned(s) :
                CountEvents("on_package_removed", p) =
                   IF p \in DOMAIN snap.pkgs
                        /\ snap.pkgs[p] \in DOMAIN snap.sources
                   THEN 0 ELSE 1

C6_Witness ==
    /\ pc = "done"
    /\ \E s \in GoneSources :
          /\ Cardinality(Owned(s)) = 2
          /\ \E p, q \in Owned(s) :
                /\ p \notin DOMAIN snap.pkgs
                /\ q \in DOMAIN snap.pkgs
                /\ CountEvents("on_package_removed", p) = 1
                /\ CountEvents("on_package_removed", q) = 0
          /\ CountCalls("delete_source", s) = 1

\* ---- C7
\* sources that vanished together with all the packages they had
GoneWithPackages ==
    {s \in GoneSources : Owned(s) # {} /\ Owned(s) \cap DOMAIN snap.pkgs = {}}

StoreAdd(s, v, o) ==
    /\ store_calls' = store_calls + 1
    /\ last_write'.call = Call("add_source_version", s, v, o)

\* C8 as amended: add_source_version on a fact that was stored leaves the
\* sources, the packages and every other fact as they were and keeps one row
\* for the fact, stamped with the time of the call, which is not earlier
\* than the timestamp it had; no fact of the same source and origin is newer.
C8_Step ==
    \A s \in SourceNames, v \in VersionStrings, o \in {local, nixos} :
       (StoreAdd(s, v, o) /\ HasFact(self_db, s, v, o)) =>
          LET sid == SourceIdOf(self_db, s)
              row(ts) == [source_id |-> sid, version |-> v, source |-> o,
                          timestamp |-> ts]
          IN  /\ self_db'.sources = self_db.sources
              /\ self_db'.packages = self_db.packages
              /\ self_db'.versions =
                    (self_db.versions \ {row(TimestampOf(self_db, s, v, o))})
                       \cup {row(now')}
              /\ now' >= TimestampOf(self_db, s, v, o)
              /\ \A r \in VersionRows(self_db', s, o) : r.timestamp <= now'

C9_Unique ==
    /\ \A r1, r2 \in self_db.versions :
          (r1.source_id = r2.source_id /\ r1.version = r2.version
             /\ r1.source = r2.source) => r1 = r2
    /\ \A s1, s2 \in self_db.sources :
          (s1.name = s2.name \/ s1.id = s2.id) => s1 = s2
    /\ \A p1, p2 \in self_db.packages : p1.name = p2.name => p1 = p2

C9_Witness ==
    /\ Cardinality(self_db.sources) = 2
    /\ Cardinality(self_db.packages) = 2
    /\ \E r1, r2 \in self_db.versions :
          /\ r1.source_id = r2.source_id
          /\ r1.source = r2.source
          /\ r1.version # r2.version

\* ---- C10
\* C10: after add_source_version(s, v, o) returned true, v is the version
\* get_latest_version_from_source(s, o) returns.
C10_RoundTrip ==
    (last_write.call.op = "add_source_version" /\ last_write.ok) =>
       get_latest_version_of(self_db, last_write.call.a, last_write.call.c)
          = {last_write.call.b}

\* ---- C11
\* every package row of the store references a source row of the store
Referential(db) ==
    \A p \in db.packages : \E s \in db.sources : s.id = p.source_id

\* C11: in every state of the reconciliation cycles, the states between two
\* committed writes included, every stored package references a source that
\* is in the store; and the packages of a removed source are deleted before
\* the source is.
C11_Referential ==
    /\ Referential(self_db)
    /\ \A s \in SourceNames :
          (RemovedPackagesDone /\ s \in removed_sources \ swept_sources) =>
             LET packages == get_packages_by_source_name(self_db, s)
             IN  Referential(delete_source(
                                delete_each_package(self_db, packages), s))

C11_Witness ==
    /\ pc = "done"
    /\ CountCalls("delete_source", "s1") = 1
    /\ "p1" \in DOMAIN existing_owner
    /\ existing_owner["p1"] = "s1"
    /\ get_package_by_name(self_db, "p1") = <<"p1", "s2", NoMetadata>>
    /\ Referential(self_db)

\* ---- C12
\* every item of the cycle has been handled
AllHandled ==
    /\ current_sources = DOMAIN snap.sources
    /\ upstream_todo = <<>>
    /\ current_packages = DOMAIN snap.pkgs
    /\ swept_packages = existing_packages \ DOMAIN snap.pkgs
    /\ swept_sources = existing_sources \ DOMAIN snap.sources

\* C12: on a storage whose writes can fail at any call, with a provider and
\* version reads that can raise, a cycle that has started reaches its end
\* with every snapshot source and package processed and every removed
\* package and source swept.
C12_CycleCompletes ==
    (pc = "running") ~> (pc = "done" /\ AllHandled)

\* a cycle ended in which the delete of p1 failed, the delete of p2 ran, the
\* delete of a source failed and the other source was deleted
C12_Witness ==
    /\ pc = "done"
    /\ existing_packages = PackageNames
    /\ DOMAIN snap.pkgs = {}
    /\ "p1" \in get_all_package_names(self_db)
    /\ "p2" \notin get_all_package_names(self_db)
    /\ existing_sources = SourceNames
    /\ Cardinality(get_all_source_names(self_db)) = 1
    /\ CountCalls("delete_package", "p2") >= 1
    /\ CountCalls("delete_source", "s1") = 1
    /\ CountCalls("delete_source", "s2") = 1

\* ---- C13
\* C13: whatever the storage does, no write operation of the store raises,
\* a write returns false when sqlite3.Error was raised in it, and no
\* exception of a write ends the cycle.
C13_WritesReturnBoolean ==
    /\ ~last_write.raised
    /\ last_write.error => last_write.ok = FALSE
    /\ pc # "aborted"

C13_Witness ==
    /\ pc = "done"
    /\ last_write.error
    /\ last_write.call.op = "delete_source"
    /\ last_write.ok = FALSE
    /\ CountCalls("delete_package", "p1") >= 1
    /\ "p1" \in get_all_package_names(self_db)
    /\ \E s \in SourceNames :
          /\ s \in get_all_source_names(self_db)
          /\ VersionRows(self_db, s, local) = {}

\* ---- C14
\* C14: no read of the store raises when what it looks for is missing: each
\* returns None or an empty list, search_sources included when a matching
\* source has no 'local' fact.
C14_ReadsNeverRaise == ~last_read.out.raised

\* a step in which a write operation of the store is called
WriteStep == store_calls' = store_calls + 1 /\ last_read' = NoRead

\* ---- C15
\* C15: add_package_metadata called with a source name that is not in the
\* store returns false and leaves the store unchanged: no package row is
\* created or modified and no source row is created.
C15_Step ==
    \A s \in SourceNames, name \in PackageNames \cup {None} :
       (/\ WriteStep
        /\ last_write'.call = Call("add_package_metadata", s, name, None)
        /\ s \notin get_all_source_names(self_db))
       => (last_write'.ok = FALSE /\ self_db' = self_db)

C15_UnknownSourceRejected == [][C15_Step]_vars

\* the call was made for an unknown source, with metadata, on a store that
\* has another source and a package
C15_Witness ==
    /\ last_read = NoRead
    /\ last_write.call.op = "add_package_metadata"
    /\ last_write.call.a \notin get_all_source_names(self_db)
    /\ last_write.fields # NoMetadata
    /\ last_write.ok = FALSE
    /\ self_db.sources # {}
    /\ self_db.packages # {}

\* ---- C16
\* C16: add_package_metadata for a known source is a full replace keyed by
\* package name: afterwards exactly one row exists for the package name (the
\* source name when the name is omitted), and the six metadata fields and the
\* owning source of that row are the values of this call, so that a field
\* this call omits is absent whatever an earlier call stored.
C16_Step ==
    \A s \in SourceNames, name \in PackageNames \cup {None},
       fields \in MetadataInputs :
       (/\ WriteStep
        /\ last_write'.call = Call("add_package_metadata", s, name, None)
        /\ last_write'.fields = fields
        /\ s \in get_all_source_names(self_db))
       => LET package_name == IF name = None THEN s ELSE name
          IN  /\ last_write'.ok
              /\ Cardinality({p \in self_db'.packages :
                                p.name = package_name}) = 1
              /\ get_package_by_name(self_db', package_name)
                   = <<package_name, s, fields>>

C16_FullReplace == [][C16_Step]_vars

\* a call that leaves out the name and all six fields was made for a package
\* that had a maintainer and a summary
C16_Witness ==
    /\ last_read = NoRead
    /\ last_write.call.op = "add_package_metadata"
    /\ last_write.ok
    /\ last_write.old.maintainer # None
    /\ last_write.old.summary # None
    /\ last_write.fields = NoMetadata
    /\ last_write.call.b = None
    /\ get_package_by_name(self_db, last_write.call.a)
         = <<last_write.call.a, last_write.call.a, NoMetadata>>

\* ---- C17
\* C17: get_latest_version(source) returns None exactly when the source has
\* no version facts; otherwise it returns an (origin, version) pair of the
\* per-origin latest versions such that no other pair has a greater version
\* under the version comparator and, among the pairs that compare equal to
\* it, its origin name sorts first.
C17_LatestOverall ==
    (last_read.op = "get_latest_version") =>
       LET source_name == last_read.a
           result == last_read.out.value
       IN  /\ ~last_read.out.raised
           /\ (result = NoRow) <=>
                 (\A o \in {local, nixos} :
                     VersionRows(self_db, source_name, o) = {})
           /\ (result # NoRow) =>
                 \E latest_versions \in
                        get_latest_versions_each_source(self_db, source_name) :
                    /\ \E i \in DOMAIN latest_versions :
                          latest_versions[i] = result
                    /\ \A i \in DOMAIN latest_versions :
                          LET other == latest_versions[i]
                              c == version_compare2(other[2], result[2])
                          IN  /\ c <= 0
                              /\ (c = 0 /\ other[1] # result[1]) =>
                                    CharsBefore(CharsOf(result[1]),
                                                CharsOf(other[1]))

\* the source has '1.0' from local and only '1.0.0' from nixos, which compare
\* equal, and the read returned the local pair
C17_Witness ==
    /\ last_read.op = "get_latest_version"
    /\ last_read.out.value = <<local, "1.0">>
    /\ {r.version : r \in VersionRows(self_db, last_read.a, local)} = {"1.0"}
    /\ {r.version : r \in VersionRows(self_db, last_read.a, nixos)} = {"1.0.0"}

\* ---- C18
\* C18: delete_source(s) for a stored source removes s and every version
\* fact of s, returns true, and leaves the version facts of every other
\* source, the other source rows and all package rows unchanged; for a name
\* that is not in the store it returns false and changes nothing.
C18_Step ==
    \A s \in SourceNames :
       (/\ WriteStep
        /\ last_write'.call = Call("delete_source", s, None, None))
       => IF s \in get_all_source_names(self_db)
          THEN LET source_id == SourceIdOf(self_db, s)
               IN  /\ last_write'.ok
                   /\ s \notin get_all_source_names(self_db')
                   /\ \A o \in {local, nixos} : VersionRows(self_db', s, o) = {}
                   /\ self_db'.versions =
                        {v \in self_db.versions : v.source_id # source_id}
                   /\ self_db'.sources =
                        {r \in self_db.sources : r.name # s}
                   /\ self_db'.packages = self_db.packages
          ELSE last_write'.ok = FALSE /\ self_db' = self_db

C18_DeleteSourceFrame == [][C18_Step]_vars

\* a source that had a package was deleted while another source has version
\* facts: the package row is still there
C18_Witness ==
    /\ last_read = NoRead
    /\ last_write.call.op = "delete_source"
    /\ last_write.ok
    /\ self_db.versions # {}
    /\ \E p \in self_db.packages :
          \A r \in self_db.sources : r.id # p.source_id

\* ---- C19
\* C19: notify_package_update sends no notification when the store has no
\* 'local' version for the event's source, and does not query the store at
\* all (and sends nothing) when no notifier is configured.
C19_NoLocalNoNotification ==
    (last_read.op = "notify_package_update") =>
       LET outcome == last_read.out.value
       IN  /\ ~outcome.email_notifier =>
                 (~outcome.queried /\ outcome.sends = EmptyBag)
           /\ VersionRows(self_db, last_read.a, local) = {} =>
                 outcome.sends = EmptyBag

\* a notifier is configured and the source of the event has an upstream fact
\* only
C19_Witness ==
    /\ last_read.op = "notify_package_update"
    /\ last_read.out.value.email_notifier
    /\ last_read.out.value.queried
    /\ VersionRows(self_db, last_read.a, local) = {}
    /\ VersionRows(self_db, last_read.a, nixos) # {}

\* ---- C20
\* C20: for an upstream-version-updated event on a source that has a stored
\* local version, send_update_notification is called exactly once for each
\* package of the source, each call with the stored latest local version and
\* the version and origin of the event; for a source without packages it is
\* called exactly once, with the source name as package name and no
\* maintainer email.
C20_OnePerPackage ==
    (/\ last_read.op = "notify_package_update"
     /\ last_read.out.value.email_notifier
     /\ VersionRows(self_db, last_read.a, local) # {}) =>
       LET source_name == last_read.a
           outcome == last_read.out.value
           packages == get_packages_by_source_name(self_db, source_name)
       IN  \E local_version \in
                  get_latest_version_of(self_db, source_name, local) :
              IF packages = {}
              THEN outcome.sends =
                     SetToBag({Send(source_name, source_name, local_version,
                                    last_read.b, outcome.repository, None)})
              ELSE /\ BagCardinality(outcome.sends) = Cardinality(packages)
                   /\ \A p \in packages :
                         \E e \in BagToSet(outcome.sends) :
                            /\ CopiesIn(e, outcome.sends) = 1
                            /\ e.package_name = p
                            /\ e.source_name = source_name
                            /\ e.local_version = local_version
                            /\ e.upstream_version = last_read.b
                            /\ e.repository = outcome.repository

\* the source of the event has two packages, one with a maintainer address,
\* and a local version that differs from the version of the event
C20_Witness ==
    /\ last_read.op = "notify_package_update"
    /\ BagCardinality(last_read.out.value.sends) = 2
    /\ \E e \in BagToSet(last_read.out.value.sends) :
          /\ e.maintainer_email = "jo@x"
          /\ e.local_version # e.upstream_version
    /\ \E e \in BagToSet(last_read.out.value.sends) :
          e.maintainer_email = None

\* ---- C21
\* C21: a transport failure while sending the notification for one package
\* makes send_update_notification return false without raising, and
\* notify_package_update still calls send_update_notification for every
\* other package of the source.
C21_TransportFailureContained ==
    (/\ last_read.op = "notify_package_update"
     /\ last_read.out.value.email_notifier
     /\ VersionRows(self_db, last_read.a, local) # {}) =>
       LET outcome == last_read.out.value
           stored == get_packages_by_source_name(self_db, last_read.a)
           packages == IF stored = {} THEN {last_read.a} ELSE stored
       IN  /\ ~last_read.out.raised
           /\ \A p \in packages :
                 /\ \E e \in BagToSet(outcome.sends) :
                       e.package_name = p /\ CopiesIn(e, outcome.sends) = 1
                 /\ CopiesIn([package_name |-> p,
                              ok |-> p \notin outcome.unreachable],
                             outcome.returned) = 1
           /\ BagCardinality(outcome.returned) = Cardinality(packages)

\* the source has two packages and the transport failed for one of them
C21_Witness ==
    /\ last_read.op = "notify_package_update"
    /\ BagCardinality(last_read.out.value.sends) = 2
    /\ \E e \in BagToSet(last_read.out.value.returned) : ~e.ok
    /\ \E e \in BagToSet(last_read.out.value.returned) : e.ok

\* ---- C22
\* the step that asks the provider for the current source, and the provider
\* raises
ProviderRaisesStep ==
    /\ pc = "running"
    /\ upstream_todo # <<>>
    /\ upstream_todo' = Tail(upstream_todo)
    /\ snap.upstream[cur_source] = Raises

\* C22: the step in which provider.get_version raises for a source writes no
\* version, invokes no callback and leaves the cycle running; and a cycle in
\* which the provider raised for a source ends with every source of the
\* snapshot handled and its declared version stored.
C22_Step ==
    /\ ProviderRaisesStep =>
          /\ self_db' = self_db
          /\ calls' = calls
          /\ events' = events
          /\ pc' = "running"
    /\ (/\ pc' = "done"
        /\ upstream_sources' # <<>>
        /\ \E r \in DOMAIN snap'.sources : snap'.upstream[r] = Raises) =>
          \A s \in DOMAIN snap'.sources :
             /\ s \in current_sources'
             /\ HasFact(self_db', s, snap'.sources[s], local)

C22_ProviderErrorContained == [][C22_Step]_vars

C22_Witness ==
    /\ pc = "done"
    /\ upstream_sources = <<nixos>>
    /\ DOMAIN snap.sources = SourceNames
    /\ snap.upstream["s1"] = Raises
    /\ "s1" \in existing_sources
    /\ cur_source = "s2"
    /\ VersionRows(self_db, "s1", nixos) = {}
    /\ CountEvents("on_upstream_version_updated", "s1") = 0
    /\ HasFact(self_db, "s2", snap.sources["s2"], local)

\* ---- C23
\* the string that stands for a reading of source.version that raised
ErrorVersion(reading) ==
    IF reading = RollingIdUnavailable THEN "RollingIDUnavailable"
    ELSE "Error: Exception"

\* C23: the step that handles a source whose declared version cannot be read
\* leaves the cycle running and treats 'RollingIDUnavailable' (rolling id
\* unavailable) or 'Error: <exception type>' (any other exception) as the
\* declared version: when the string is not the store's latest 'local'
\* version it is passed to add_source_version, stored when the write
\* succeeds, and reported by on_local_version_updated for a source stored at
\* cycle start; when it is the latest version nothing is written or
\* reported; and the cycle ends with every source of the snapshot handled.
C23_Step ==
    /\ \A s \in SourceNames :
          (/\ pc = "running"
           /\ LocalStepOf(s)
           /\ snap.sources[s] \in {RollingIdUnavailable, Raises}) =>
             LET v == ErrorVersion(snap.sources[s])
                 latest == get_latest_version_of(self_db, s, local)
                 ev == Event("on_local_version_updated", s, v, local)
             IN  /\ pc' = "running"
                 /\ v \notin latest =>
                       /\ calls' = Log(calls, Call("add_source_version", s, v,
                                                  local))
                       /\ last_write'.ok => HasFact(self_db', s, v, local)
                       /\ events' = IF s \in existing_sources
                                    THEN Log(events, ev) ELSE events
                 /\ latest = {v} =>
                       /\ self_db' = self_db
                       /\ calls' = calls
                       /\ events' = events
    /\ (/\ pc' = "done"
        /\ \E r \in DOMAIN snap'.sources :
              snap'.sources[r] \in {RollingIdUnavailable, Raises}) =>
          current_sources' = DOMAIN snap'.sources

C23_VersionErrorMapped == [][C23_Step]_vars

C23_Witness ==
    /\ pc = "done"
    /\ DOMAIN snap.sources = SourceNames
    /\ snap.sources["s1"] = Raises
    /\ "s1" \in existing_sources
    /\ HasFact(self_db, "s1", "Error: Exception", local)
    /\ Event("on_local_version_updated", "s1", "Error: Exception", local)
          \in DOMAIN events
    /\ cur_source = "s2"
    /\ HasFact(self_db, "s2", BaseVersion, local)

\* ---- C24
\* C24: with a subscriber that raises whenever it is called, whichever of
\* the four callbacks it stands behind, no exception leaves update_database:
\* the cycle is never ended by one.
C24_CallbackErrorsContained == raising # {} => pc # "aborted"

\* ---- C25
\* the step in which on_upstream_version_updated is invoked for a source
UpstreamEventStep(s) ==
    CountEvents("on_upstream_version_updated", s)'
       > CountEvents("on_upstream_version_updated", s)

\* C25: the local version of a source is handled before any upstream origin
\* of it, and in the step in which on_upstream_version_updated is invoked
\* for a source, the store's latest 'local' version of the source is the
\* version the snapshot declares.
C25_Step ==
    \A s \in SourceNames :
       UpstreamEventStep(s) =>
          /\ s \in current_sources
          /\ s = cur_source
          /\ get_latest_version_of(self_db', s, local)
                = {local_version_of(snap.sources[s])}

C25_LocalBeforeUpstream == [][C25_Step]_vars

\* ---- C26
\* C26: in the step that invokes on_local_version_updated or
\* on_upstream_version_updated, the add_source_version call for the event's
\* source, version and origin has returned true, and the store's latest
\* version of the event's source and origin is the version of the event.
C26_Step ==
    \A e \in DOMAIN events' :
       (/\ e.cb \in VersionCallbacks
        /\ CopiesIn(e, events') > CopiesIn(e, events)) =>
          /\ last_write'.call = Call("add_source_version", e.a, e.b, e.c)
          /\ last_write'.ok
          /\ get_latest_version_of(self_db', e.a, e.c) = {e.b}

C26_ReportedOnlyWhenPersisted == [][C26_Step]_vars

PackageStepOf(p) == p \notin current_packages /\ p \in current_packages'

\* C29: the step that handles a snapshot package invokes on_package_added
\* (name, source) exactly when the name is not in the list of package names
\* read at cycle start, the lookup of the package in the store at that
\* moment finds nothing exactly in that case, and no other step invokes
\* on_package_added for the package.
C29_Step ==
    \A p \in PackageNames :
       /\ PackageStepOf(p) =>
             /\ get_package_by_name(self_db, p) = NoRow
                   <=> p \notin existing_packages
             /\ events' = IF p \notin existing_packages
                          THEN Log(events, Event("on_package_added", p,
                                                 snap.pkgs[p], None))
                          ELSE events
       /\ CountEvents("on_package_added", p)'
             > CountEvents("on_package_added", p) => PackageStepOf(p)

C29_AddedFollowsBaseline == [][C29_Step]_vars

C29_Witness ==
    /\ pc = "done"
    /\ existing_packages = {"p1"}
    /\ DOMAIN snap.pkgs = PackageNames
    /\ CountEvents("on_package_added", "p1") = 0
    /\ Event("on_package_added", "p2", snap.pkgs["p2"], None) \in DOMAIN events
    /\ get_package_by_name(self_db, "p2") # NoRow

\* ---- C30
\* the six columns a package of the snapshot is to have in the store
StoredAs(package) ==
    LET yml == IF package.has_subpkg_yml THEN package.subpkg_yml
               ELSE package.this_yml
    IN  IF yml = full_metadata_yml
        THEN [maintainer |-> "Jo <jo@x>", homepage_url |-> "url",
              license |-> "MIT", category |-> "base, libs",
              summary |-> "text", description |-> "long"]
        ELSE IF yml = partial_metadata_yml
        THEN [maintainer |-> "jo@x", homepage_url |-> None, license |-> None,
              category |-> "base", summary |-> None, description |-> None]
        ELSE [maintainer |-> None, homepage_url |-> None, license |-> None,
              category |-> None, summary |-> None, description |-> None]

\* C30: when a cycle has run to its end, add_package_metadata has been called
\* once for every package of the snapshot, and for every snapshot package
\* whose source is in the store get_package_by_name returns the source and
\* the metadata the snapshot has for it: no field of an earlier cycle is
\* kept, and the source is the snapshot's also when the package moved.
C30_MetadataUpserted ==
    pc = "done" =>
       \A p \in DOMAIN snap.pkgs :
          /\ CopiesIn(Call("add_package_metadata", snap.pkgs[p], p, None),
                      calls) = 1
          /\ snap.pkgs[p] \in get_all_source_names(self_db) =>
                get_package_by_name(self_db, p)
                   = <<p, snap.pkgs[p], StoredAs(snap.yml[p])>>

\* a cycle ended in which p1, stored under s1 with all six fields, moved to
\* s2 and kept a maintainer and a category only
C30_Witness ==
    /\ pc = "done"
    /\ "p1" \in DOMAIN snap.pkgs
    /\ "p1" \in existing_packages
    /\ existing_owner["p1"] = "s1"
    /\ last_write.call = Call("add_package_metadata", "s2", "p1", None)
    /\ last_write.old = AllMetadata
    /\ CountEvents("on_package_added", "p1") = 0
    /\ get_package_by_name(self_db, "p1")
          = <<"p1", "s2", [NoMetadata EXCEPT !.maintainer = "jo@x",
                                             !.category = "base"]>>

\* ---- C31
\* the (origin, version) facts the store has for a source name
VersionFacts(db, source_name) ==
    {<<r.source, r.version>> :
        r \in {x \in db.versions : x.source_id = SourceIdOf(db, source_name)
                                   /\ SourceIdOf(db, source_name) # 0}}

\* C31: no step takes an (origin, version) fact of a source out of the
\* store, except the step of a cycle that calls delete_source for the source
\* because the cycle's snapshot lacks it.
C31_Step ==
    \A s \in SourceNames :
       ~(VersionFacts(self_db, s) \subseteq VersionFacts(self_db', s)) =>
          /\ pc = "running"
          /\ s \notin DOMAIN snap.sources
          /\ s \in swept_sources' \ swept_sources
          /\ CopiesIn(Call("delete_source", s, None, None), calls')
                = CopiesIn(Call("delete_source", s, None, None), calls) + 1

C31_HistoryAppendOnly == [][C31_Step]_vars

\* a cycle ended in which s1 went back to the version it had two cycles
\* ago: the fact was written again and the version in between is kept
C31_Witness ==
    /\ pc = "done"
    /\ cycles = 2
    /\ "s1" \in existing_sources
    /\ "s1" \in DOMAIN snap.sources
    /\ snap.sources["s1"] = "1.0"
    /\ last_write.call = Call("add_source_version", "s1", "1.0", local)
    /\ last_write.prior >= 0
    /\ {<<local, "1.0">>, <<local, "1.1">>} \subseteq VersionFacts(self_db, "s1")

\* ---- C32
\* C32: a call add_source_version(s, v, o) leaves the result of
\* get_latest_version_from_source(s2, o2) as it was for every source and
\* origin other than (s, o): version and timestamp of the latest fact, or
\* the absence of one.
C32_Step ==
    (/\ store_calls' = store_calls + 1
     /\ last_write'.call.op = "add_source_version") =>
       \A s2 \in SourceNames, o2 \in {local, nixos} :
          <<s2, o2>> # <<last_write'.call.a, last_write'.call.c>> =>
             get_latest_version_from_source(self_db', s2, o2)
                = get_latest_version_from_source(self_db, s2, o2)

C32_OriginIsolation == [][C32_Step]_vars

\* an upstream observation of the version s1 declares was recorded for s1
\* last, and the local fact of s1 and a fact of s2 are as they were
C32_Witness ==
    /\ last_write.call = Call("add_source_version", "s1", "1.0", nixos)
    /\ last_write.ok
    /\ get_latest_version_from_source(self_db, "s1", local) = {<<"1.0", 0>>}
    /\ get_latest_version_from_source(self_db, "s1", nixos) = {<<"1.0", now>>}
    /\ now > 0
    /\ get_latest_version_from_source(self_db, "s2", local) # {NoRow}

\* ---- C33
\* the maintainer field stored for the package of a send
MaintainerOf(db, package_name) ==
    LET rows == {p \in db.packages : p.name = package_name}
    IN  IF rows = {} THEN None ELSE (CHOOSE p \in rows : TRUE).fields.maintainer

\* the maintainer field is absent, empty or without the character '@'
LacksAt(maintainer) ==
    \/ maintainer \in {None, EmptyString}
    \/ \A i \in DOMAIN CharsOf(maintainer) : CharsOf(maintainer)[i] # "@"

\* C33: every notification that notify_package_update sends goes to the
\* fallback address exactly when it is marked unmaintained, whether the
\* maintainer email it passes is absent, an empty string or an address, and
\* a maintainer field without '@' yields an absent email.
C33_FallbackIffUnmaintained ==
    last_read.op = "notify_package_update" =>
       \A e \in BagToSet(last_read.out.value.sends) :
          /\ (e.recipient = fallback_email) <=> e.is_unmaintained
          /\ LacksAt(MaintainerOf(self_db, e.package_name))
                => e.maintainer_email = None

\* ---- C34
\* every version the store may return as the latest of (s, o) exists and
\* compares equal to v
LatestComparesEqual(db, s, o, v) ==
    \A current \in get_latest_version_of(db, s, o) :
       /\ current # None
       /\ compare_two_versions(<<current, o, "">>, <<v, o, "">>) = 0

\* C34: the step that handles the local version of a source, or the answer
\* of the provider for it, writes no fact and invokes no callback when the
\* observed version compares equal to the stored latest version of the same
\* source and origin, also when the two strings differ.
C34_Step ==
    /\ \A s \in SourceNames :
          (/\ pc = "running"
           /\ LocalStepOf(s)
           /\ LatestComparesEqual(self_db, s, local, snap.sources[s]))
             => self_db' = self_db /\ calls' = calls /\ events' = events
    /\ (/\ pc = "running"
        /\ upstream_todo # <<>>
        /\ upstream_todo' = Tail(upstream_todo)
        /\ snap.upstream[cur_source] \in StoreVersions
        /\ LatestComparesEqual(self_db, cur_source, Head(upstream_todo),
                               snap.upstream[cur_source]))
          => self_db' = self_db /\ calls' = calls /\ events' = events

C34_ComparatorDecidesChange == [][C34_Step]_vars

\* ---- C35
\* the calls of the comparator made so far, with their results
Compared == {c \in BagToSet(calls) : c.op = "compare_two_versions"}

\* the pairs the claim ranks
RankedPairs ==
    {<<"1.0.0", "1.0.1">>, <<"1.0.1", "2.0.0~rc1">>, <<"2.0.0~rc1", "2.0.0">>}

Contains(text, t) ==
    \E i \in 1..(Len(text) - Len(t) + 1) : SubSeq(text, i, i + Len(t) - 1) = t

\* C36: search_sources(t) returns the stored sources whose name contains t
\* as a case-sensitive literal substring, all of them and no other, ordered
\* by name, each with its latest 'local' version and its overall latest
\* version.
C36_SearchExact ==
    last_read.op = "search_sources" =>
       LET matching == {s.name : s \in {x \in self_db.sources :
                           Contains(CharsOf(x.name), CharsOf(last_read.a))}}
           found == last_read.out.value
       IN  /\ ~last_read.out.raised
           /\ [i \in 1..Len(found) |-> found[i].name] = OrderBy(matching)
           /\ \A i \in 1..Len(found) :
                 /\ found[i].local_version
                       \in get_latest_version_of(self_db, found[i].name, local)
                 /\ \E g \in get_latest_version(self_db, found[i].name) :
                       g # NoRow /\ found[i].latest_version = g[2]

\* ---- C37
\* the export has handled every source and every package of its lists
ExportDone ==
    pc = "main" /\ args.export_db /\ todo_sources = <<>> /\ todo_packages = <<>>

\* C37: when an export run over a list of packages has ended,
\* add_package_metadata was called exactly once for every distinct package
\* of the list, whatever sources were processed before.
C37_OncePerPackage ==
    ExportDone =>
       \A i \in DOMAIN args.packages :
          CopiesIn(Call("add_package_metadata",
                        dist_packages[args.packages[i]], args.packages[i],
                        None), calls) = 1

\* ---- C38
\* the call ran "git pull"
PullRan(ran) == \E i \in DOMAIN ran : ran[i][1] = "pull"

\* C38: update_git_repository runs "git pull" only when the .git directory
\* exists and "git status" exited with 0, returns true exactly when it ran
\* the pull and the pull exited with 0, and returns false without running
\* "git pull" when the path is not a git repository.
C38_PullOnlyInRepository ==
    last_read.op = "update_git_repository" =>
       LET out == last_read.out.value
           repository == /\ out.git_dir
                         /\ ~out.status.raised
                         /\ out.status.returncode = 0
       IN  /\ ~last_read.out.raised
           /\ PullRan(out.ran) => repository
           /\ out.value <=> /\ PullRan(out.ran)
                            /\ ~out.pull.raised
                            /\ out.pull.returncode = 0
           /\ ~repository => (~out.value /\ ~PullRan(out.ran))

\* a pull of a branch that succeeded, after one that failed
C38_Witness ==
    /\ last_read.op = "update_git_repository"
    /\ store_calls = 2
    /\ last_read.out.value.value
    /\ last_read.out.value.ran = <<<<"status">>, <<"pull", "upstream", "develop">>>>

\* ---- C39
\* the step is a call of get_version
GetVersionStep ==
    store_calls' = store_calls + 1 /\ last_read'.op = "get_version"

\* the call of download_file the provider makes
Download ==
    Call("download_file", "packages.json.br", "nixos_packages.json", None)

\* C39: a call of get_version made while the payload file is older than 24
\* hours fetches the payload again, whichever provider instance of the
\* process makes it.
C39_Step ==
    (GetVersionStep /\ cache_age > 1) =>
       CopiesIn(Download, calls') = CopiesIn(Download, calls) + 1

C39_RefetchAfterADay == [][C39_Step]_vars

====
